---- MODULE Spec2Model ----
(***************************************************************************)
(* Model of gtnoble/filtopt: the discrete component-value model            *)
(* (src/component.js), the filter composition layer (src/filter.js) and    *)
(* the simulated-annealing optimizer (src/optimize.js).                    *)
(*                                                                         *)
(* Numbers.  JavaScript numbers are IEEE-754 doubles.  A double is a       *)
(* record [cls, val]: cls = "fin" (val an integer count of a fixed unit),  *)
(* "inf" (val = 1 or -1), "nan", or "undef" for the JavaScript value       *)
(* undefined (an out-of-range array read).                                 *)
(*   - Component values are counted in units of 1/(40*RandDen), so that    *)
(*     the E24 entries and Math.random()*(max-min)+min are integers and a  *)
(*     product that is rounded off its decimal value is told from it.      *)
(*   - Costs and temperatures are counted in units of the smallest         *)
(*     positive double (2^-1074).  On that grid a subtraction is exact and *)
(*     a product with the cooling rate is rounded to the nearest grid      *)
(*     point, ties to even, which is what the hardware does; the quotient  *)
(*     cost/temperature is the ratio of two small integers.                *)
(*   - Math.random() is rn/RandDen for rn in 0..RandDen-1, the interval    *)
(*     [0,1) with its end point 0.                                         *)
(* Array indices are 0-based as in the source; a TLA+ sequence s holds     *)
(* element i of the array at s[i+1].                                       *)
(***************************************************************************)
EXTENDS Integers, Sequences, FiniteSets, TLC

VARIABLES
    \* ---- the heap of ComponentValue objects (src/component.js) ----
    tableHeap,      \* the feasibleValues arrays, by reference
    cvHeap,         \* the VariableComponentValue objects, by reference
    cvLast,         \* the last ComponentValue operation and its outcome
    \* ---- one call of optimizeFilter (src/optimize.js) ----
    pc,             \* "call", "loop", "done" (returned) or "raised" (threw)
    args,           \* the arguments of the call
    filterHeap,     \* the Filter objects, by reference; 0 is initialFilter
    objective,      \* the graph of objectiveFunction, as far as evaluated
    filter,         \* local `filter`: reference of the current filter
    temperature,    \* local `temperature`
    objectiveValue, \* local `objectiveValue`
    i,              \* loop counter
    returned,       \* the reference returned, -1 before the return
    iter,           \* what the last loop iteration saw and did
    stats,          \* counters and history of the call
    \* ---- one call of a function that keeps no state ----
    call            \* the function called, its arguments and what it returned

vars == <<tableHeap, cvHeap, cvLast, pc, args, filterHeap, objective, filter,
          temperature, objectiveValue, i, returned, iter, stats, call>>

cvVars == <<tableHeap, cvHeap, cvLast>>
optVars == <<pc, args, filterHeap, objective, filter, temperature,
             objectiveValue, i, returned, iter, stats, call>>

(***************************************************************************)
(* Bounds of the model.                                                    *)
(***************************************************************************)
RandDen == 4
CoolDen == 4
MaxIterations == 3
MaxTemperature == 2
MaxCost == 2
MaxTables == 2
MaxObjects == 4

(***************************************************************************)
(* IEEE-754 doubles.                                                       *)
(***************************************************************************)
Fin(n) == [cls |-> "fin", val |-> n]
PInf == [cls |-> "inf", val |-> 1]
NInf == [cls |-> "inf", val |-> -1]
NaN == [cls |-> "nan", val |-> 0]
Undefined == [cls |-> "undef", val |-> 0]

\* ToNumber: undefined converts to NaN before any arithmetic or comparison
ToNumber(a) == IF a.cls = "undef" THEN NaN ELSE a

IsFinite(a) == a.cls = "fin"

\* a - b
FSub(x, y) ==
    LET a == ToNumber(x)
        b == ToNumber(y)
    IN  IF a.cls = "nan" \/ b.cls = "nan" THEN NaN
        ELSE IF a.cls = "inf" /\ b.cls = "inf"
             THEN IF a.val = b.val THEN NaN ELSE a
        ELSE IF a.cls = "inf" THEN a
        ELSE IF b.cls = "inf" THEN [cls |-> "inf", val |-> -b.val]
        ELSE Fin(a.val - b.val)

\* -a
FNeg(x) ==
    LET a == ToNumber(x)
    IN  IF a.cls = "nan" THEN NaN ELSE [cls |-> a.cls, val |-> -a.val]

\* a + b
FAdd(x, y) ==
    FSub(x, FNeg(y))

\* Math.abs(a)
FAbs(x) ==
    LET a == ToNumber(x)
    IN  IF a.cls = "nan" THEN NaN
        ELSE [cls |-> a.cls, val |-> IF a.val < 0 THEN -a.val ELSE a.val]

\* a <= b; every comparison with NaN is false
FLe(x, y) ==
    LET a == ToNumber(x)
        b == ToNumber(y)
    IN  IF a.cls = "nan" \/ b.cls = "nan" THEN FALSE
        ELSE IF a.cls = "inf" THEN a.val = -1 \/ (b.cls = "inf" /\ b.val = 1)
        ELSE IF b.cls = "inf" THEN b.val = 1
        ELSE a.val <= b.val

\* a < b
FLt(x, y) ==
    LET a == ToNumber(x)
        b == ToNumber(y)
    IN  IF a.cls = "nan" \/ b.cls = "nan" THEN FALSE
        ELSE FLe(a, b) /\ a # b

\* a >= 0, as in assert(valueIndex >= 0) and assert(capacitance >= 0)
FGeZero(x) == FLe(Fin(0), x)

RECURSIVE Pow(_, _)
Pow(b, e) == IF e <= 0 THEN 1 ELSE b * Pow(b, e - 1)

\* num/den rounded to the nearest integer, ties to the even one
RoundHalfEven(num, den) ==
    LET q == num \div den
        r == num % den
    IN  IF 2 * r < den THEN q
        ELSE IF 2 * r > den THEN q + 1
        ELSE IF q % 2 = 0 THEN q ELSE q + 1

(***************************************************************************)
(* ComponentValue: src/component.js (VariableComponentValue); the same     *)
(* code is the class ComponentValue of src/optimize.js.                    *)
(***************************************************************************)
\* E24_VALUES, in tenths
E24_VALUES ==
    <<10, 11, 12, 13, 15, 16, 18, 20, 22, 24, 27, 30,
      33, 36, 39, 43, 47, 51, 56, 62, 68, 75, 82, 91>>

\* Math.random(): the numerators rn of the draws rn/RandDen in [0,1)
Draws == 0 .. (RandDen - 1)

\* the component value t/10 (the double nearest to it), in value units.
\* A quarter of a unit stands for a rounding error in the last binary
\* place: far below any difference of two decimal values, but enough to
\* order a rounded product against the decimal value it misses.
Tenths(t) == 4 * t * RandDen

\* eValue * Math.pow(10, orderOfMagnitude) in IEEE-754 double arithmetic,
\* against the double nearest to the decimal product: 0 when they are the
\* same double, 1 when the product is the next double above, -1 when it is
\* the next double below.  ProductExcess[k + 1][j] is for decade k and
\* E24_VALUES[j]; 1.1 * 100 is 110.00000000000001, 5.1 * 100 is
\* 509.99999999999994.  Decades 0, 1 and 3 are exact.
ProductExcess ==
    <<[j \in 1 .. 24 |-> 0],
      [j \in 1 .. 24 |-> 0],
      [j \in 1 .. 24 |-> IF j \in {2, 9} THEN 1
                         ELSE IF j \in {18, 23} THEN -1 ELSE 0],
      [j \in 1 .. 24 |-> 0]>>

\* array[index] of JavaScript: undefined outside the array
ArrayGet(array, index) ==
    IF index >= 0 /\ index < Len(array) THEN array[index + 1] ELSE Undefined

\* Math.floor(Math.log10(v)) for v >= 1.0
RECURSIVE FloorLog10(_)
FloorLog10(v) ==
    IF v < Tenths(100) THEN 0 ELSE 1 + FloorLog10(v \div 10)

\* Math.ceil(Math.log10(v)) for v >= 1.0
RECURSIVE CeilLog10(_)
CeilLog10(v) ==
    IF v <= Tenths(10) THEN 0 ELSE 1 + CeilLog10((v + 9) \div 10)

\* Array.prototype.sort((a, b) => a - b) on finite numbers: insertion of x
\* in an ascending list, after the elements that are not greater
RECURSIVE SortInsert(_, _)
SortInsert(sorted, x) ==
    IF sorted = <<>> THEN <<x>>
    ELSE IF x.val < Head(sorted).val THEN <<x>> \o sorted
    ELSE <<Head(sorted)>> \o SortInsert(Tail(sorted), x)

RECURSIVE SortAscending(_)
SortAscending(values) ==
    IF values = <<>> THEN <<>>
    ELSE SortInsert(SortAscending(Tail(values)), Head(values))

\* the inner loop of feasiblePreferredValues for one order of magnitude
DecadeCandidates(orderOfMagnitude, minValue, maxValue) ==
    LET candidateValue(j) ==
            Fin(Tenths(E24_VALUES[j] * Pow(10, orderOfMagnitude))
                + ProductExcess[orderOfMagnitude + 1][j])
        InRange(c) == c.val >= minValue /\ c.val <= maxValue
    IN  SelectSeq([j \in 1 .. Len(E24_VALUES) |-> candidateValue(j)], InRange)

RECURSIVE CollectDecades(_, _, _, _)
CollectDecades(orderOfMagnitude, maxSeries, minValue, maxValue) ==
    IF orderOfMagnitude > maxSeries THEN <<>>
    ELSE DecadeCandidates(orderOfMagnitude, minValue, maxValue)
         \o CollectDecades(orderOfMagnitude + 1, maxSeries, minValue, maxValue)

\* feasiblePreferredValues without its two asserts: what C14_BadRangeRaises
\* is to tell from feasiblePreferredValues
feasiblePreferredValues_unchecked(minValue, maxValue) ==
    [raised |-> FALSE,
     values |-> SortAscending(
         CollectDecades(FloorLog10(minValue), CeilLog10(maxValue),
                        minValue, maxValue))]

\* static feasiblePreferredValues(minValue, maxValue); minValue and
\* maxValue in value units.  raised: an assert failed.
feasiblePreferredValues(minValue, maxValue) ==
    IF ~(minValue > 0) \/ ~(maxValue >= minValue)
    THEN [raised |-> TRUE, values |-> <<>>]
    ELSE [raised |-> FALSE,
          values |-> SortAscending(
              CollectDecades(FloorLog10(minValue), CeilLog10(maxValue),
                             minValue, maxValue))]

\* neighbors.findIndex((feasibleValue) => value <= feasibleValue)
FindIndex(val, neighbors) ==
    LET hits == {k \in 0 .. (Len(neighbors) - 1) : FLe(val, neighbors[k + 1])}
    IN  IF hits = {} THEN -1
        ELSE CHOOSE k \in hits : \A h \in hits : k <= h

\* static nearestNeighborIndex(value, neighbors); assert(value) fails on 0
\* and on NaN
nearestNeighborIndex(val, neighbors) ==
    IF val.cls = "nan" \/ (val.cls = "fin" /\ val.val = 0)
    THEN [raised |-> TRUE, index |-> -1]
    ELSE LET upperValueIndex == FindIndex(val, neighbors)
             lowerValueIndex == upperValueIndex - 1
             lowerValue == ArrayGet(neighbors, lowerValueIndex)
             upperValue == ArrayGet(neighbors, upperValueIndex)
         IN  IF upperValueIndex = 0
             THEN [raised |-> FALSE, index |-> upperValueIndex]
             ELSE [raised |-> FALSE,
                   index |-> IF FLe(FAbs(FSub(val, upperValue)),
                                    FAbs(FSub(val, lowerValue)))
                             THEN upperValueIndex
                             ELSE lowerValueIndex]

\* constructor(feasibleValues, valueIndex): assert(valueIndex >= 0)
VariableComponentValue(feasibleValues, valueIndex) ==
    [raised |-> ~(valueIndex >= 0),
     feasibleValues |-> feasibleValues,
     valueIndex |-> valueIndex]

\* static initializeComponent(initialValue, maxValue, minValue, allowZero,
\* allowInfinite); feasibleValues is the array built, valueIndex the index
initializeComponent(initialValue, maxValue, minValue, allowZero, allowInfinite) ==
    LET failed == [raised |-> TRUE, feasibleValues |-> <<>>, valueIndex |-> -1]
    IN  IF ~(initialValue >= 0) \/ ~(minValue > 0) \/ ~(maxValue >= minValue)
        THEN failed
        ELSE LET preferred == feasiblePreferredValues(minValue, maxValue)
                 withZero == IF allowZero
                             THEN <<Fin(0)>> \o preferred.values
                             ELSE preferred.values
                 feasibleValues == IF allowInfinite
                                   THEN Append(withZero, PInf)
                                   ELSE withZero
                 nearest == nearestNeighborIndex(Fin(initialValue), feasibleValues)
             IN  IF preferred.raised \/ nearest.raised THEN failed
                 ELSE VariableComponentValue(feasibleValues, nearest.index)

\* static randomizeComponent(maxValue, minValue, allowZero, allowInfinite)
\* with Math.random() = rn/RandDen
randomizeComponent(maxValue, minValue, allowZero, allowInfinite, rn) ==
    initializeComponent((rn * (maxValue - minValue)) \div RandDen + minValue,
                        maxValue, minValue, allowZero, allowInfinite)

\* get value()
value(feasibleValues, valueIndex) == ArrayGet(feasibleValues, valueIndex)

\* _nextIndex() without its second test, the one of the last index: what
\* C9_OneStep is to tell from _nextIndex
_nextIndex_unclamped(valueIndex, length, rn) ==
    IF valueIndex = 0 THEN 1
    ELSE valueIndex + (IF 2 * rn > RandDen THEN 1 ELSE -1)

\* a _nextIndex() that steps down from every index but 0: what
\* C29_EveryIndexReachable is to tell from _nextIndex
_nextIndex_downward(valueIndex, length, rn) ==
    IF valueIndex = 0 THEN 1 ELSE valueIndex - 1

\* a _nextIndex() that stays at an end of the array when the draw points
\* outward: what C28_IndexParity is to tell from _nextIndex
_nextIndex_staying(valueIndex, length, rn) ==
    IF 2 * rn > RandDen
    THEN (IF valueIndex >= length - 1 THEN valueIndex ELSE valueIndex + 1)
    ELSE (IF valueIndex = 0 THEN 0 ELSE valueIndex - 1)

\* _nextIndex() of a value at valueIndex in an array of `length` elements,
\* with Math.random() = rn/RandDen
_nextIndex(valueIndex, length, rn) ==
    IF valueIndex = 0 THEN 1
    ELSE IF valueIndex = length - 1 THEN length - 2
    ELSE valueIndex + (IF 2 * rn > RandDen THEN 1 ELSE -1)

\* an update() that moves the receiver itself and returns a copy of it: what
\* C10_UpdateFrame is to tell from update
update_inPlace(heap, tables, v, rn) ==
    LET this == heap[v]
        next == _nextIndex(this.valueIndex, Len(tables[this.feasibleValues]), rn)
    IN  Append([heap EXCEPT ![v].valueIndex = next],
               [feasibleValues |-> this.feasibleValues, valueIndex |-> next])

\* update() of the object at reference v: the heap after the call; the
\* object returned is the last one of the heap
update(heap, tables, v, rn) ==
    LET this == heap[v]
        made == VariableComponentValue(
                    this.feasibleValues,
                    _nextIndex(this.valueIndex, Len(tables[this.feasibleValues]), rn))
    IN  Append(heap, [feasibleValues |-> made.feasibleValues,
                      valueIndex |-> made.valueIndex])

(***************************************************************************)
(* SpecCV: a program that builds ComponentValues with initializeComponent  *)
(* and randomizeComponent and calls update() on any of them, any number of *)
(* times.  Objects and arrays live on heaps, so that identity and sharing  *)
(* are visible.                                                            *)
(***************************************************************************)
\* <<minValue, maxValue>> of the calls, in tenths: arrays of no, one, two
\* and three preferred values
ComponentRanges == {<<10, 10>>, <<10, 11>>, <<10, 12>>, <<14, 14>>}

\* initialValue of the calls, in tenths
InitialTenths == {0, 10, 11, 15}

NoOp == [op |-> "none", raised |-> FALSE, receiver |-> 0, result |-> 0]

NoCall == [fn |-> "none", args |-> <<>>, result |-> <<>>]

CVIdle == tableHeap = <<>> /\ cvHeap = <<>> /\ cvLast = NoOp

OptIdle ==
    /\ pc = "idle"
    /\ args = <<>>
    /\ filterHeap = <<>>
    /\ objective = <<>>
    /\ filter = -1
    /\ temperature = 0
    /\ objectiveValue = NaN
    /\ i = 0
    /\ returned = -1
    /\ iter = <<>>
    /\ stats = <<>>
    /\ call = NoCall

\* the heaps after a factory call that returned `made`
Allocate(opName, made) ==
    IF made.raised
    THEN /\ cvLast' = [op |-> opName, raised |-> TRUE, receiver |-> 0, result |-> 0]
         /\ UNCHANGED <<tableHeap, cvHeap>>
    ELSE /\ tableHeap' = Append(tableHeap, made.feasibleValues)
         /\ cvHeap' = Append(cvHeap, [feasibleValues |-> Len(tableHeap) + 1,
                                      valueIndex |-> made.valueIndex])
         /\ cvLast' = [op |-> opName, raised |-> FALSE, receiver |-> 0,
                       result |-> Len(cvHeap) + 1]

\* what the calls of initializeComponent return (or that they raise)
InitializeCalls ==
    {initializeComponent(Tenths(initial), Tenths(range[2]), Tenths(range[1]),
                         allowZero, allowInfinite) :
        range \in ComponentRanges, initial \in InitialTenths,
        allowZero \in BOOLEAN, allowInfinite \in BOOLEAN}

\* what the calls of randomizeComponent return, over the draws
RandomizeCalls ==
    {randomizeComponent(Tenths(range[2]), Tenths(range[1]),
                        allowZero, allowInfinite, rn) :
        range \in ComponentRanges, rn \in Draws,
        allowZero \in BOOLEAN, allowInfinite \in BOOLEAN}

CVInitialize ==
    /\ Len(tableHeap) < MaxTables
    /\ Len(cvHeap) < MaxObjects
    /\ \E made \in InitializeCalls : Allocate("initializeComponent", made)
    /\ UNCHANGED optVars

CVRandomize ==
    /\ Len(tableHeap) < MaxTables
    /\ Len(cvHeap) < MaxObjects
    /\ \E made \in RandomizeCalls : Allocate("randomizeComponent", made)
    /\ UNCHANGED optVars

CVUpdate ==
    /\ Len(cvHeap) < MaxObjects
    /\ \E v \in 1 .. Len(cvHeap), rn \in Draws :
          /\ cvHeap' = update(cvHeap, tableHeap, v, rn)
          /\ cvLast' = [op |-> "update", raised |-> FALSE, receiver |-> v,
                        result |-> Len(cvHeap) + 1]
    /\ UNCHANGED tableHeap
    /\ UNCHANGED optVars

InitCV == CVIdle /\ OptIdle

NextCV == CVInitialize \/ CVRandomize \/ CVUpdate

SpecCV == InitCV /\ [][NextCV]_vars

(***************************************************************************)
(* Component, FilterStage, Filter: src/component.js, src/filter.js.        *)
(* A Filter is [inputLoad, outputLoad, stages]; a stage is [role,          *)
(* components]; a component is [componentName, feasibleValues,             *)
(* valueIndex], its VariableComponentValue inlined.                        *)
(***************************************************************************)
\* new Capacitor(v) / new Inductor(v) around a ComponentValue made by
\* initializeComponent
MakeComponent(componentName, made) ==
    [componentName |-> componentName,
     feasibleValues |-> made.feasibleValues,
     valueIndex |-> made.valueIndex]

\* Component.update() with Math.random() = rn/RandDen
Component_update(component, rn) ==
    [component EXCEPT !.valueIndex =
        _nextIndex(component.valueIndex, Len(component.feasibleValues), rn)]

\* the number of components of the stages before stage s
RECURSIVE ComponentsBefore(_, _)
ComponentsBefore(stages, s) ==
    IF s <= 1 THEN 0
    ELSE ComponentsBefore(stages, s - 1) + Len(stages[s - 1].components)

NumComponents(f) == ComponentsBefore(f.stages, Len(f.stages) + 1)

\* a FilterStage.update() that moves all components of the stage by the
\* draw of the first one: what C25_UpdateMovesEveryComponent is to tell
\* from FilterStage_update
FilterStage_update_oneDraw(stage, rns, first) ==
    [stage EXCEPT !.components =
        [c \in 1 .. Len(stage.components) |->
            Component_update(stage.components[c], rns[first + 1])]]

\* FilterStage.update(): every component updated, each with its own draw;
\* rns[first + c] is the draw of component c
FilterStage_update(stage, rns, first) ==
    [stage EXCEPT !.components =
        [c \in 1 .. Len(stage.components) |->
            Component_update(stage.components[c], rns[first + c])]]

\* a Filter.update() that hands the terminations over crosswise: what
\* C17_UpdateKeepsTopology is to tell from Filter_update
Filter_update_swapped(f, rns) ==
    [inputLoad |-> f.outputLoad,
     outputLoad |-> f.inputLoad,
     stages |-> [s \in 1 .. Len(f.stages) |->
                    FilterStage_update(f.stages[s], rns,
                                       ComponentsBefore(f.stages, s))]]

\* Filter.update(): every stage updated, the terminations carried over
Filter_update(f, rns) ==
    [inputLoad |-> f.inputLoad,
     outputLoad |-> f.outputLoad,
     stages |-> [s \in 1 .. Len(f.stages) |->
                    FilterStage_update(f.stages[s], rns,
                                       ComponentsBefore(f.stages, s))]]

\* Component.load(): Load.capacitor(v) and Load.inductor(v) assert v >= 0,
\* which fails on undefined
Component_load(component) ==
    LET v == value(component.feasibleValues, component.valueIndex)
    IN  [raised |-> ~FGeZero(v), load |-> <<component.componentName, v>>]

\* get network() of a Filter: the cascade of series(inputLoad), the stage
\* networks and shunt(outputLoad), named by what it is built from; raised
\* when a component's load() raises
Filter_network(f) ==
    LET loads(stage) == [c \in 1 .. Len(stage.components) |->
                            Component_load(stage.components[c])]
    IN  [raised |-> \E s \in 1 .. Len(f.stages) :
                        \E c \in 1 .. Len(f.stages[s].components) :
                            loads(f.stages[s])[c].raised,
         network |-> [first |-> <<"series", f.inputLoad>>,
                      stages |-> [s \in 1 .. Len(f.stages) |->
                                    <<f.stages[s].role,
                                      [c \in 1 .. Len(f.stages[s].components) |->
                                          loads(f.stages[s])[c].load]>>],
                      last |-> <<"shunt", f.outputLoad>>]]

(***************************************************************************)
(* optimizeFilter: src/optimize.js.                                        *)
(***************************************************************************)
\* a / temperature for a double a and a temperature >= 0: a double of the
\* ordinary range, [cls, num, den] with num/den its value when finite
FDiv(x, temp) ==
    LET a == ToNumber(x)
    IN  IF a.cls = "nan" THEN [cls |-> "nan", num |-> 0, den |-> 1]
        ELSE IF temp = 0
             THEN IF a.val = 0 THEN [cls |-> "nan", num |-> 0, den |-> 1]
                  ELSE [cls |-> "inf", num |-> IF a.val > 0 THEN 1 ELSE -1,
                        den |-> 1]
        ELSE IF a.cls = "inf" THEN [cls |-> "inf", num |-> a.val, den |-> 1]
        ELSE [cls |-> "fin", num |-> a.val, den |-> temp]

\* Math.pow(2, x): NaN, +Infinity, 0, or 2^(num/den) kept by its exponent
MathPow2(x) ==
    IF x.cls = "nan" THEN [cls |-> "nan", num |-> 0, den |-> 1]
    ELSE IF x.cls = "inf"
         THEN IF x.num > 0 THEN [cls |-> "inf", num |-> 0, den |-> 1]
              ELSE [cls |-> "zero", num |-> 0, den |-> 1]
    ELSE [cls |-> "pow2", num |-> x.num, den |-> x.den]

\* rn/RandDen <= p for p = Math.pow(2, x).  For p = 2^(num/den) < 1 and
\* rn > 0 this is (rn/RandDen)^den <= 2^num.
RandomLe(rn, p) ==
    IF p.cls = "nan" THEN FALSE
    ELSE IF p.cls = "inf" THEN TRUE
    ELSE IF p.cls = "zero" THEN rn = 0
    ELSE IF rn = 0 \/ p.num >= 0 THEN TRUE
    ELSE Pow(rn, p.den) * Pow(2, -p.num) <= Pow(RandDen, p.den)

\* the test of the if: Math.random() <= Math.pow(2, - (candidateObjectiveValue
\* - objectiveValue) / temperature), with Math.random() = rn/RandDen
Accepts(rn, candidateObjectiveValue, objectiveVal, temp) ==
    RandomLe(rn, MathPow2(FDiv(FNeg(FSub(candidateObjectiveValue, objectiveVal)),
                               temp)))

\* temperature - temperature * coolingRate with coolingRate = cn/CoolDen
Cool(temp, cn) == temp - RoundHalfEven(temp * cn, CoolDen)

\* an if whose body is never run: what C2_ReturnsFinalCurrent is to tell
\* from AfterTest
AfterTest_keepCurrent(accepted, current, candidate) == current

\* the body of the if: what `filter` and `objectiveValue` are after it
AfterTest(accepted, current, candidate) ==
    IF accepted THEN candidate ELSE current

\* the costs an objective function returns: finite ones, +Infinity, NaN
Costs == {Fin(n) : n \in 0 .. MaxCost} \cup {PInf, NaN}

\* an objectiveFunction that may return another cost each time it is
\* called: what C27_CostIsObjectiveOfCurrent is to tell from Outcomes
Outcomes_fresh(network) ==
    Costs

\* objectiveFunction is a deterministic function of the network; its graph
\* is fixed the first time a network is evaluated
Outcomes(network) ==
    IF network \in DOMAIN objective THEN {objective[network]} ELSE Costs

Learn(network, cost) ==
    IF network \in DOMAIN objective THEN objective
    ELSE objective @@ (network :> cost)

Built(componentName, initial, range, allowZero, allowInfinite) ==
    MakeComponent(componentName,
                  initializeComponent(Tenths(initial), Tenths(range[2]),
                                      Tenths(range[1]), allowZero, allowInfinite))

\* the filters optimizeFilter is called with: no stage; one capacitor with
\* a single feasible value; one inductor inside three feasible values; a
\* series inductor and a shunt capacitor
InitialFilters ==
    {[inputLoad |-> "source", outputLoad |-> "load", stages |-> stages] :
        stages \in
          {<<>>,
           <<[role |-> "series",
              components |-> <<Built("capacitor", 10, <<10, 10>>, FALSE, FALSE)>>]>>,
           <<[role |-> "shunt",
              components |-> <<Built("inductor", 11, <<10, 12>>, FALSE, FALSE)>>]>>,
           <<[role |-> "series",
              components |-> <<Built("inductor", 10, <<10, 11>>, FALSE, FALSE)>>],
             [role |-> "shunt",
              components |-> <<Built("capacitor", 11, <<10, 11>>, FALSE, TRUE)>>]>>}}

NoIter ==
    [ran |-> FALSE, candidate |-> -1, candidateObjectiveValue |-> NaN,
     objectiveValue |-> NaN, temperature |-> 0, rn |-> 0, accepted |-> FALSE]

NoStats ==
    [updates |-> 0, evaluations |-> 0, lastAccepted |-> 0, bestCost |-> NaN]

Init ==
    /\ CVIdle
    /\ pc = "call"
    /\ args \in [initialFilter : InitialFilters,
                 initialTemperature : 1 .. MaxTemperature,
                 coolingRate : 1 .. (CoolDen - 1),
                 iterations : 0 .. MaxIterations]
    /\ filterHeap = (0 :> args.initialFilter)
    /\ objective = <<>>
    /\ filter = -1
    /\ temperature = 0
    /\ objectiveValue = NaN
    /\ i = 0
    /\ returned = -1
    /\ iter = NoIter
    /\ stats = NoStats
    /\ call = NoCall

\* the call throws: nothing is returned
Raise ==
    /\ pc' = "raised"
    /\ UNCHANGED <<filterHeap, objective, filter, temperature, objectiveValue,
                   i, returned, iter>>

\* entry of optimizeFilter: the asserts (a number passes assert(x) unless it
\* is 0 or NaN), then the initial values of the locals
Enter ==
    /\ pc = "call"
    /\ UNCHANGED <<args, cvVars, call>>
    /\ IF args.initialTemperature = 0 \/ args.coolingRate = 0 \/ args.iterations = 0
       THEN Raise /\ UNCHANGED stats
       ELSE LET net == Filter_network(filterHeap[0])
            IN  IF net.raised
                THEN Raise /\ UNCHANGED stats
                ELSE \E cost \in Outcomes(net.network) :
                        /\ pc' = "loop"
                        /\ filter' = 0
                        /\ temperature' = args.initialTemperature
                        /\ objectiveValue' = cost
                        /\ objective' = Learn(net.network, cost)
                        /\ i' = 0
                        /\ stats' = [stats EXCEPT !.evaluations = 1,
                                                  !.bestCost = cost]
                        /\ UNCHANGED <<filterHeap, returned, iter>>

\* the smaller of two costs, NaN counting as no cost
Best(a, b) ==
    IF FLt(b, a) \/ ToNumber(a).cls = "nan" THEN b ELSE a

\* an update() that writes its result over the filters there are as well:
\* what C26_InitialFilterUntouched is to tell from Allocated
Allocated_overExisting(heap, ref, object) ==
    [k \in DOMAIN heap \cup {ref} |-> object]

\* new Filter(...) at the end of update(): the heap with the new object at
\* reference ref, every other object as it was
Allocated(heap, ref, object) ==
    heap @@ (ref :> object)

\* what filter.update() can return, over the draws of its components
Candidates(f) ==
    {Filter_update(f, rns) : rns \in [1 .. NumComponents(f) -> Draws]}

\* one iteration of the loop: the candidate (object i + 1) is made by
\* filter.update() with one draw per component, its network is evaluated,
\* the test is made with the draw rn, and the temperature is cooled.  The
\* candidate is dropped when it is not kept.
Iterate ==
    /\ pc = "loop"
    /\ i < args.iterations
    /\ UNCHANGED <<args, cvVars, returned, call>>
    /\ \E candidateFilter \in Candidates(filterHeap[filter]), rn \in Draws :
          LET net == Filter_network(candidateFilter)
          IN  IF net.raised
              THEN /\ pc' = "raised"
                   /\ stats' = [stats EXCEPT !.updates = @ + 1]
                   /\ UNCHANGED <<filterHeap, objective, filter, temperature,
                                  objectiveValue, i, iter>>
              ELSE \E cost \in Outcomes(net.network) :
                      LET accepted == Accepts(rn, cost, objectiveValue, temperature)
                          kept == AfterTest(accepted, filter, i + 1)
                          heap == Allocated(filterHeap, i + 1, candidateFilter)
                      IN  /\ pc' = "loop"
                          /\ filter' = kept
                          /\ objectiveValue' = AfterTest(accepted, objectiveValue, cost)
                          /\ temperature' = Cool(temperature, args.coolingRate)
                          /\ i' = i + 1
                          /\ objective' = Learn(net.network, cost)
                          /\ filterHeap' = [k \in {0, kept} |-> heap[k]]
                          /\ iter' = [ran |-> TRUE,
                                      candidate |-> i + 1,
                                      candidateObjectiveValue |-> cost,
                                      objectiveValue |-> objectiveValue,
                                      temperature |-> temperature,
                                      rn |-> rn,
                                      accepted |-> accepted]
                          /\ stats' = [updates |-> stats.updates + 1,
                                       evaluations |-> stats.evaluations + 1,
                                       lastAccepted |->
                                           IF accepted THEN i + 1
                                           ELSE stats.lastAccepted,
                                       bestCost |->
                                           IF accepted THEN Best(stats.bestCost, cost)
                                           ELSE stats.bestCost]

\* return filter
Return ==
    /\ pc = "loop"
    /\ ~(i < args.iterations)
    /\ pc' = "done"
    /\ returned' = filter
    /\ UNCHANGED <<args, cvVars, filterHeap, objective, filter, temperature,
                   objectiveValue, i, iter, stats, call>>

Next == Enter \/ Iterate \/ Return

Spec == Init /\ [][Next]_vars

(***************************************************************************)
(* JavaScript numbers of the network layer (load.js, twoPortNetwork.js,    *)
(* the sampling loop of optimize.js) are IEEE-754 doubles.  Here a double  *)
(* is computed bit for bit: a finite nonzero double is                     *)
(*     (-1)^neg * mant * 2^exp                                             *)
(* with mant a natural number of exactly 53 bits, held as a little-endian  *)
(* sequence of 12-bit limbs; every operation computes the exact result     *)
(* and rounds it to nearest, ties to even, as the hardware does.  Zero     *)
(* carries no sign (0 === -0 in the source's comparisons), and the         *)
(* exponent is unbounded: overflow and subnormals do not occur for the     *)
(* magnitudes used below.                                                  *)
(***************************************************************************)
Limb == 4096

LimbBits == 12

MantBits == 53

RECURSIVE BTrim(_)
BTrim(a) ==
    IF a = <<>> THEN <<>>
    ELSE IF a[Len(a)] = 0 THEN BTrim(SubSeq(a, 1, Len(a) - 1))
    ELSE a

RECURSIVE BFromNat(_)
BFromNat(n) ==
    IF n = 0 THEN <<>> ELSE <<n % Limb>> \o BFromNat(n \div Limb)

RECURSIVE BCmpFrom(_, _, _)
BCmpFrom(a, b, k) ==
    IF k = 0 THEN 0
    ELSE IF a[k] > b[k] THEN 1
    ELSE IF a[k] < b[k] THEN -1
    ELSE BCmpFrom(a, b, k - 1)

BCmp(a, b) ==
    IF Len(a) > Len(b) THEN 1
    ELSE IF Len(a) < Len(b) THEN -1
    ELSE BCmpFrom(a, b, Len(a))

\* the limb of index 1 of a, zero when a has none
Low(a) ==
    IF a = <<>> THEN 0 ELSE Head(a)

Rest(a) ==
    IF a = <<>> THEN <<>> ELSE Tail(a)

RECURSIVE BAddC(_, _, _)
BAddC(a, b, carry) ==
    IF a = <<>> /\ b = <<>> THEN (IF carry = 0 THEN <<>> ELSE <<carry>>)
    ELSE <<(Low(a) + Low(b) + carry) % Limb>>
             \o BAddC(Rest(a), Rest(b), (Low(a) + Low(b) + carry) \div Limb)

BAdd(a, b) ==
    BAddC(a, b, 0)

RECURSIVE BSubB(_, _, _)
BSubB(a, b, borrow) ==
    IF a = <<>> THEN <<>>
    ELSE <<(Head(a) - Low(b) - borrow + Limb) % Limb>>
             \o BSubB(Tail(a), Rest(b),
                      IF Head(a) - Low(b) - borrow < 0 THEN 1 ELSE 0)

\* a - b for a >= b
BSub(a, b) ==
    BTrim(BSubB(a, b, 0))

RECURSIVE BMulSmallC(_, _, _)
BMulSmallC(a, m, carry) ==
    IF a = <<>> THEN (IF carry = 0 THEN <<>> ELSE <<carry>>)
    ELSE <<(Head(a) * m + carry) % Limb>>
             \o BMulSmallC(Tail(a), m, (Head(a) * m + carry) \div Limb)

BMulSmall(a, m) ==
    BTrim(BMulSmallC(a, m, 0))

\* a * Limb
BShiftLimb(a) ==
    IF a = <<>> THEN <<>> ELSE <<0>> \o a

RECURSIVE BMul(_, _)
BMul(a, b) ==
    IF a = <<>> \/ b = <<>> THEN <<>>
    ELSE BAdd(BMulSmall(a, Head(b)), BShiftLimb(BMul(a, Tail(b))))

\* one step of short division: the next limb after the higher ones
DivStep(hi, limb, m) ==
    [q |-> <<(hi.r * Limb + limb) \div m>> \o hi.q,
     r |-> (hi.r * Limb + limb) % m]

\* quotient and remainder of a by a divisor below one limb
RECURSIVE BDivSmallR(_, _)
BDivSmallR(a, m) ==
    IF a = <<>> THEN [q |-> <<>>, r |-> 0]
    ELSE DivStep(BDivSmallR(Tail(a), m), Head(a), m)

TrimQuotient(d) ==
    [q |-> BTrim(d.q), r |-> d.r]

BDivSmall(a, m) ==
    TrimQuotient(BDivSmallR(a, m))

RECURSIVE Pow2(_)
Pow2(k) ==
    IF k = 0 THEN 1 ELSE 2 * Pow2(k - 1)

RECURSIVE SmallBits(_)
SmallBits(n) ==
    IF n = 0 THEN 0 ELSE 1 + SmallBits(n \div 2)

BBits(a) ==
    IF a = <<>> THEN 0 ELSE LimbBits * (Len(a) - 1) + SmallBits(a[Len(a)])

\* a * 2^k
BShl(a, k) ==
    IF a = <<>> THEN <<>>
    ELSE BMulSmall([n \in 1..(k \div LimbBits) |-> 0] \o a, Pow2(k % LimbBits))

BOdd(a) ==
    a # <<>> /\ Head(a) % 2 = 1

\* the quotient d.q, its lowest bit set when d.r or a dropped limb is not zero
Jam(d, dropped) ==
    IF (d.r # 0 \/ \E n \in 1..Len(dropped) : dropped[n] # 0) /\ ~BOdd(d.q)
    THEN BAdd(d.q, <<1>>)
    ELSE d.q

\* floor(a / 2^k), its lowest bit set when a bit was shifted out
BShrJam(a, k) ==
    IF k \div LimbBits >= Len(a) THEN (IF a = <<>> THEN <<>> ELSE <<1>>)
    ELSE Jam(BDivSmall(SubSeq(a, k \div LimbBits + 1, Len(a)), Pow2(k % LimbBits)),
             SubSeq(a, 1, k \div LimbBits))

Double(neg, mant, exp) ==
    [cls |-> "fin", neg |-> neg, mant |-> mant, exp |-> exp]

DZero ==
    Double(FALSE, <<>>, 0)

DInf(neg) ==
    [cls |-> "inf", neg |-> neg, mant |-> <<>>, exp |-> 0]

DNaN ==
    [cls |-> "nan", neg |-> FALSE, mant |-> <<>>, exp |-> 0]

IsZero(x) ==
    x.cls = "fin" /\ x.mant = <<>>

\* a mantissa one bit too long is halved
Carry(neg, m, e) ==
    IF BBits(m) > MantBits THEN Double(neg, BDivSmall(m, 2).q, e + 1)
    ELSE Double(neg, m, e)

\* d is a mantissa with two more bits, divided by 4: round to nearest, ties
\* to even
RoundQuotient(neg, d, e) ==
    Carry(neg,
          IF d.r > 2 \/ (d.r = 2 /\ BOdd(d.q)) THEN BAdd(d.q, <<1>>) ELSE d.q,
          e)

\* n of len bits brought to MantBits + 2 bits
Widen(n, len) ==
    IF len > MantBits + 2 THEN BShrJam(n, len - (MantBits + 2))
    ELSE BShl(n, (MantBits + 2) - len)

\* the double nearest to (-1)^neg * n * 2^e, ties to even; an odd n may
\* carry a jammed last bit
DRound(neg, n, e) ==
    IF n = <<>> THEN DZero
    ELSE RoundQuotient(neg, BDivSmall(Widen(n, BBits(n)), 4),
                       e + BBits(n) - MantBits)

FromInt(n) ==
    DRound(n < 0, BFromNat(IF n < 0 THEN -n ELSE n), 0)

DNeg(x) ==
    IF x.cls = "nan" \/ IsZero(x) THEN x ELSE [x EXCEPT !.neg = ~x.neg]

MaxAlign == 60

\* |a - b|
AbsDiff(a, b) ==
    IF BCmp(a, b) >= 0 THEN BSub(a, b) ELSE BSub(b, a)

\* (-1)^negb * nb + (-1)^negs * ns, times 2^e, rounded
AddMagnitudes(negb, nb, negs, ns, e) ==
    DRound(IF negb = negs \/ BCmp(nb, ns) >= 0 THEN negb ELSE negs,
           IF negb = negs THEN BAdd(nb, ns) ELSE AbsDiff(nb, ns),
           e)

\* how far the mantissa of big is shifted to meet small: a small operand
\* further away than MaxAlign bits only decides the rounding
Shift(big, small) ==
    IF big.exp - small.exp > MaxAlign THEN MaxAlign ELSE big.exp - small.exp

\* big + small for finite nonzero operands, big.exp >= small.exp
AddOrdered(big, small) ==
    AddMagnitudes(big.neg, BShl(big.mant, Shift(big, small)),
                  small.neg,
                  IF big.exp - small.exp > MaxAlign THEN <<1>> ELSE small.mant,
                  IF big.exp - small.exp > MaxAlign THEN big.exp - MaxAlign
                  ELSE small.exp)

\* x + y
DAdd(x, y) ==
    IF x.cls = "nan" \/ y.cls = "nan" THEN DNaN
    ELSE IF x.cls = "inf" /\ y.cls = "inf"
        THEN (IF x.neg = y.neg THEN x ELSE DNaN)
    ELSE IF x.cls = "inf" THEN x
    ELSE IF y.cls = "inf" THEN y
    ELSE IF IsZero(x) THEN y
    ELSE IF IsZero(y) THEN x
    ELSE AddOrdered(IF x.exp >= y.exp THEN x ELSE y,
                    IF x.exp >= y.exp THEN y ELSE x)

DSub(x, y) ==
    DAdd(x, DNeg(y))

\* x * y
DMul(x, y) ==
    IF x.cls = "nan" \/ y.cls = "nan" THEN DNaN
    ELSE IF x.cls = "inf" \/ y.cls = "inf"
        THEN (IF IsZero(x) \/ IsZero(y) THEN DNaN ELSE DInf(x.neg # y.neg))
    ELSE IF IsZero(x) \/ IsZero(y) THEN DZero
    ELSE DRound(x.neg # y.neg, BMul(x.mant, y.mant), x.exp + y.exp)

\* the natural number of a few limbs, as an integer
RECURSIVE SmallValue(_)
SmallValue(a) ==
    IF a = <<>> THEN 0 ELSE Head(a) + Limb * SmallValue(Tail(a))

\* the limbs of a above the lowest three, as an integer
Top(a) ==
    SmallValue(SubSeq(a, 4, Len(a)))

\* the quotient digit estimated from below is raised until the remainder
\* is below the divisor
RECURSIVE Correct(_, _, _)
Correct(rem, d, digit) ==
    IF BCmp(rem, d) >= 0 THEN Correct(BSub(rem, d), d, digit + 1)
    ELSE [digit |-> digit, rem |-> rem]

Subtracted(shifted, d, digit) ==
    Correct(BSub(shifted, BMulSmall(d, digit)), d, digit)

\* the next base-Limb digit of rem / d for rem < d, d of MantBits bits,
\* from shifted = rem * Limb
NextDigit(shifted, d) ==
    Subtracted(shifted, d, Top(shifted) \div (Top(d) + 1))

\* count digits of rem / d below the point, lowest first, and under them
\* a limb that is odd when a remainder is left
RECURSIVE Digits(_, _, _)
RECURSIVE AfterDigit(_, _, _)
Digits(rem, d, count) ==
    IF count = 0 THEN (IF rem = <<>> THEN <<0>> ELSE <<1>>)
    ELSE AfterDigit(NextDigit(BShiftLimb(rem), d), d, count)

AfterDigit(step, d, count) ==
    Digits(step.rem, d, count - 1) \o <<step.digit>>

QuotientLimbs == 5

\* floor(x * Limb^QuotientLimbs / y) * Limb for mantissas x and y, plus one
\* when a remainder is left
Quotient(x, y) ==
    BTrim(Digits(IF BCmp(x, y) >= 0 THEN BSub(x, y) ELSE x, y, QuotientLimbs)
          \o (IF BCmp(x, y) >= 0 THEN <<1>> ELSE <<>>))

\* x / y
DDiv(x, y) ==
    IF x.cls = "nan" \/ y.cls = "nan" THEN DNaN
    ELSE IF x.cls = "inf" THEN (IF y.cls = "inf" THEN DNaN ELSE DInf(x.neg # y.neg))
    ELSE IF y.cls = "inf" THEN DZero
    ELSE IF IsZero(y) THEN (IF IsZero(x) THEN DNaN ELSE DInf(x.neg))
    ELSE IF IsZero(x) THEN DZero
    ELSE DRound(x.neg # y.neg, Quotient(x.mant, y.mant),
                x.exp - y.exp - LimbBits * (QuotientLimbs + 1))

\* the number a decimal literal n/d of the source denotes
Literal(n, d) ==
    DDiv(FromInt(n), FromInt(d))

\* the order of |x| and |y| for numbers other than NaN: -1, 0 or 1
Magnitudes(x, y) ==
    IF x.cls = "inf" THEN (IF y.cls = "inf" THEN 0 ELSE 1)
    ELSE IF y.cls = "inf" THEN -1
    ELSE IF IsZero(x) THEN (IF IsZero(y) THEN 0 ELSE -1)
    ELSE IF IsZero(y) THEN 1
    ELSE IF x.exp # y.exp THEN (IF x.exp > y.exp THEN 1 ELSE -1)
    ELSE BCmp(x.mant, y.mant)

\* x < y
DLt(x, y) ==
    IF x.cls = "nan" \/ y.cls = "nan" THEN FALSE
    ELSE IF x.neg # y.neg THEN x.neg
    ELSE Magnitudes(IF x.neg THEN y ELSE x, IF x.neg THEN x ELSE y) < 0

(***************************************************************************)
(* Load (src/load.js) and TwoPortNetwork (twoPortNetwork.js).  A value of  *)
(* the load layer is a JavaScript number (a double) or a Complex [re, im]; *)
(* mathjs adds and divides them by their types.  A Load is the expression  *)
(* that built it, [kind, val, loads]; a TwoPortNetwork likewise,           *)
(* [kind, load, turns, stages]; impedance and abcdMatrix evaluate the      *)
(* closures the constructors store.  Complex arithmetic is that of         *)
(* complex.js on finite operands: the sum and the product by components,   *)
(* the quotient by Smith's scaling.                                        *)
(***************************************************************************)
DOne ==
    FromInt(1)

DAbs(x) ==
    IF x.cls = "nan" THEN x ELSE [x EXCEPT !.neg = FALSE]

Complex(re, im) ==
    [re |-> re, im |-> im]

IsComplex(v) ==
    "re" \in DOMAIN v

\* new Complex(element) for a number or a Complex
ToComplex(v) ==
    IF IsComplex(v) THEN v ELSE Complex(v, DZero)

\* z.isZero(), z.isNaN() and z.isInfinite() of complex.js
Complex_isZero(z) ==
    IsZero(z.re) /\ IsZero(z.im)

Complex_isNaN(z) ==
    z.re.cls = "nan" \/ z.im.cls = "nan"

Complex_isInfinite(z) ==
    ~Complex_isNaN(z) /\ (z.re.cls = "inf" \/ z.im.cls = "inf")

\* Complex.ZERO, Complex.INFINITY and Complex.NAN
Complex_ZERO ==
    Complex(DZero, DZero)

Complex_INFINITY ==
    Complex(DInf(FALSE), DInf(FALSE))

Complex_NAN ==
    Complex(DNaN, DNaN)

\* x.add(y): Infinity + Infinity is NaN, Infinity + z is Infinity
Complex_add(x, y) ==
    IF Complex_isInfinite(x) /\ Complex_isInfinite(y) THEN Complex_NAN
    ELSE IF Complex_isInfinite(x) \/ Complex_isInfinite(y) THEN Complex_INFINITY
    ELSE Complex(DAdd(x.re, y.re), DAdd(x.im, y.im))

\* x.mul(y): Infinity * 0 is NaN, Infinity * z is Infinity
Complex_mul(x, y) ==
    IF \/ Complex_isInfinite(x) /\ Complex_isZero(y)
       \/ Complex_isZero(x) /\ Complex_isInfinite(y) THEN Complex_NAN
    ELSE IF Complex_isInfinite(x) \/ Complex_isInfinite(y) THEN Complex_INFINITY
    ELSE Complex(DSub(DMul(x.re, y.re), DMul(x.im, y.im)),
                 DAdd(DMul(x.re, y.im), DMul(x.im, y.re)))

\* (a + b i) / (c + d i) for |c| >= |d|, c # 0, with ratio = d / c: both
\* parts over d * ratio + c
Scaled(a, b, ratio, denominator) ==
    Complex(DDiv(DAdd(a, DMul(b, ratio)), denominator),
            DDiv(DSub(b, DMul(a, ratio)), denominator))

Smith(a, b, c, d, ratio) ==
    Scaled(a, b, ratio, DAdd(DMul(d, ratio), c))

\* the quotient (a + b i) / (c + d i) by the larger part of the divisor:
\* for |c| < |d| it is (b - a i) / (d - c i), computed as -i times
\* (b + a i) / (d + c i) with the imaginary part negated
Smith_byLarger(a, b, c, d, swap) ==
    Smith(IF swap THEN b ELSE a, IF swap THEN a ELSE b,
          IF swap THEN d ELSE c, IF swap THEN c ELSE d,
          IF swap THEN DDiv(c, d) ELSE DDiv(d, c))

Unswapped(q, swap) ==
    IF swap THEN Complex(q.re, DNeg(q.im)) ELSE q

\* x.div(y) of complex.js: 0 / 0 and Infinity / Infinity are NaN,
\* Infinity / z and z / 0 are Infinity, 0 / z and z / Infinity are 0; a
\* real divisor (ratio 0) divides both parts
Complex_div(x, y) ==
    IF \/ Complex_isZero(x) /\ Complex_isZero(y)
       \/ Complex_isInfinite(x) /\ Complex_isInfinite(y) THEN Complex_NAN
    ELSE IF Complex_isInfinite(x) \/ Complex_isZero(y) THEN Complex_INFINITY
    ELSE IF Complex_isZero(x) \/ Complex_isInfinite(y) THEN Complex_ZERO
    ELSE Unswapped(Smith_byLarger(x.re, x.im, y.re, y.im,
                                  DLt(DAbs(y.re), DAbs(y.im))),
                   DLt(DAbs(y.re), DAbs(y.im)))

\* math.add(x, y)
math_add(x, y) ==
    IF IsComplex(x) \/ IsComplex(y) THEN Complex_add(ToComplex(x), ToComplex(y))
    ELSE DAdd(x, y)

\* math.multiply(x, y), which math.prod folds over its arguments
math_multiply(x, y) ==
    IF IsComplex(x) \/ IsComplex(y) THEN Complex_mul(ToComplex(x), ToComplex(y))
    ELSE DMul(x, y)

\* reciprocal of load.js: math.divide(1, value)
Load_reciprocal(v) ==
    IF IsComplex(v) THEN Complex_div(ToComplex(DOne), v) ELSE DDiv(DOne, v)

\* math.i
math_i ==
    Complex(DZero, DOne)

Load_resistor(resistance) ==
    [kind |-> "resistor", val |-> resistance, loads |-> <<>>]

Load_capacitor(capacitance) ==
    [kind |-> "capacitor", val |-> capacitance, loads |-> <<>>]

Load_inductor(inductance) ==
    [kind |-> "inductor", val |-> inductance, loads |-> <<>>]

Load_series(loads) ==
    [kind |-> "series", val |-> DZero, loads |-> loads]

Load_parallel(loads) ==
    [kind |-> "parallel", val |-> DZero, loads |-> loads]

\* v, or reciprocal(v) where the closure ends with reciprocal
Reciprocated(v, inverted) ==
    IF inverted THEN Load_reciprocal(v) ELSE v

\* load.impedance(angularFrequency) and load.admittance(angularFrequency):
\* the closure getImpedance the constructor stored.  The closures of
\* capacitor and parallel end with reciprocal; the loops of series and
\* parallel start from the number 0 and add impedances or admittances.
RECURSIVE Load_impedance(_, _)
RECURSIVE Load_admittance(_, _)
RECURSIVE Accumulated(_, _, _)
RECURSIVE BeforeReciprocal(_, _)
Load_impedance(load, w) ==
    Reciprocated(BeforeReciprocal(load, w), load.kind \in {"capacitor", "parallel"})

Load_admittance(load, w) ==
    Load_reciprocal(Load_impedance(load, w))

\* what the closure computes before its reciprocal, if it has one
BeforeReciprocal(load, w) ==
    IF load.kind = "resistor" THEN Complex(load.val, DZero)
    ELSE IF load.kind \in {"inductor", "capacitor"}
        THEN math_multiply(math_multiply(math_i, w), load.val)
    ELSE Accumulated(load, Len(load.loads), w)

\* evaluatedAdmittance or combinedImpedance after the first n loads
Accumulated(load, n, w) ==
    IF n = 0 THEN DZero
    ELSE math_add(Accumulated(load, n - 1, w),
                  IF load.kind = "parallel" THEN Load_admittance(load.loads[n], w)
                  ELSE Load_impedance(load.loads[n], w))

\* new TwoPortMatrix(rows): two rows (asserted), every element through
\* new Complex(element)
TwoPortMatrix(rows) ==
    <<<<ToComplex(rows[1][1]), ToComplex(rows[1][2])>>,
      <<ToComplex(rows[2][1]), ToComplex(rows[2][2])>>>>

TwoPortMatrix_zeros ==
    TwoPortMatrix(<<<<DZero, DZero>>, <<DZero, DZero>>>>)

\* the loop over k of matrixMuliply for the entry of row r and column c
Accumulate(this, multiplier, r, c) ==
    Complex_add(Complex_add(TwoPortMatrix_zeros[r][c],
                            Complex_mul(this[r][1], multiplier[1][c])),
                Complex_mul(this[r][2], multiplier[2][c]))

\* the rows of the entries the loops over i and j set
Rows(entry) ==
    <<<<entry[<<1, 1>>], entry[<<1, 2>>]>>, <<entry[<<2, 1>>], entry[<<2, 2>>]>>>>

\* this.matrixMuliply(multiplier) of two TwoPortMatrix
matrixMuliply(this, multiplier) ==
    IF Len(this) # 2 \/ Len(multiplier) # 2 THEN <<>>
    ELSE Rows([rc \in {1, 2} \X {1, 2} |->
                  Accumulate(this, multiplier, rc[1], rc[2])])

NoLoad ==
    Load_series(<<>>)

TwoPortNetwork_series(load) ==
    [kind |-> "series", load |-> load, turns |-> DOne, stages |-> <<>>]

TwoPortNetwork_shunt(load) ==
    [kind |-> "shunt", load |-> load, turns |-> DOne, stages |-> <<>>]

TwoPortNetwork_transformer(turnsRatio) ==
    [kind |-> "transformer", load |-> NoLoad, turns |-> turnsRatio, stages |-> <<>>]

TwoPortNetwork_identity ==
    TwoPortNetwork_transformer(DOne)

\* cascade(...stages): stages.reduce(combineStages, identity()), kept as the
\* list it folds
TwoPortNetwork_cascade(stages) ==
    [kind |-> "cascade", load |-> NoLoad, turns |-> DOne, stages |-> stages]

\* a RowsOf that puts the load into the upper left entry: what
\* C21_SingleElementGain is to tell from RowsOf
RowsOf_loadFirst(kind, turns, v) ==
    IF kind = "transformer" THEN <<<<turns, DZero>>, <<DZero, v>>>>
    ELSE <<<<v, DOne>>, <<DZero, DOne>>>>

\* the rows of series (upper right v), shunt (lower left v) and
\* transformer (the diagonal turns, v)
RowsOf(kind, turns, v) ==
    IF kind = "series" THEN <<<<DOne, v>>, <<DZero, DOne>>>>
    ELSE IF kind = "shunt" THEN <<<<DOne, DZero>>, <<v, DOne>>>>
    ELSE <<<<turns, DZero>>, <<DZero, v>>>>

\* network.abcdMatrix(angularFrequency): load.impedance(w) for series,
\* load.admittance(w) for shunt, 1 / turnsRatio for transformer
RECURSIVE abcdMatrix(_, _)
RECURSIVE Reduce(_, _, _)
RECURSIVE Element(_, _)
abcdMatrix(network, w) ==
    IF network.kind = "cascade"
    THEN Reduce(network.stages, Len(network.stages), w)
    ELSE TwoPortMatrix(RowsOf(network.kind, network.turns, Element(network, w)))

Element(network, w) ==
    IF network.kind = "transformer" THEN DDiv(DOne, network.turns)
    ELSE Reciprocated(Load_impedance(network.load, w), network.kind = "shunt")

\* a reduce that puts each next stage in front of the combined ones
Reduce_reversed(stages, n, w) ==
    IF n = 0 THEN abcdMatrix(TwoPortNetwork_identity, w)
    ELSE matrixMuliply(abcdMatrix(stages[n], w), Reduce(stages, n - 1, w))

\* the reduce of cascade over the first n stages
Reduce(stages, n, w) ==
    IF n = 0 THEN abcdMatrix(TwoPortNetwork_identity, w)
    ELSE matrixMuliply(Reduce(stages, n - 1, w), abcdMatrix(stages[n], w))

\* reciprocal of twoPortNetwork.js: ONE.div(x)
TwoPortNetwork_reciprocal(x) ==
    Complex_div(ToComplex(DOne), x)

\* a test of the angular frequency that lets every number but NaN pass:
\* what C22_NegativeFrequencyRaises is to tell from DGeZero
DGeZero_anySign(x) ==
    x.cls # "nan"

\* x >= 0 for a JavaScript number x
DGeZero(x) ==
    x.cls # "nan" /\ (IsZero(x) \/ ~x.neg)

\* what a function returns that begins with assert(ok): its value, or
\* nothing when the assertion raises
Asserted(ok, v) ==
    [raised |-> ~ok, value |-> IF ok THEN v ELSE <<>>]

\* a number handed over where a Load is expected
NotALoad ==
    [kind |-> "number", val |-> DOne, loads |-> <<>>]

\* the asserts the closures run when they are evaluated: load instanceof
\* Load for every member the loops of series and parallel come to
\* (load.js:98, 116), in the loads of the stages of a network too
RECURSIVE Evaluates(_)
Evaluates(x) ==
    IF x.kind = "number" THEN FALSE
    ELSE IF "stages" \in DOMAIN x
        THEN /\ \A k \in 1 .. Len(x.stages) : Evaluates(x.stages[k])
             /\ x.kind \in {"series", "shunt"} => Evaluates(x.load)
    ELSE \A k \in 1 .. Len(x.loads) : Evaluates(x.loads[k])

\* load.impedance(angularFrequency)
impedance(load, w) ==
    Asserted(DGeZero(w) /\ Evaluates(load), Load_impedance(load, w))

\* load.admittance(angularFrequency)
admittance(load, w) ==
    Asserted(DGeZero(w) /\ Evaluates(load), Load_admittance(load, w))

\* network.voltageGain(angularFrequency)
voltageGain(network, w) ==
    Asserted(DGeZero(w) /\ Evaluates(network),
             TwoPortNetwork_reciprocal(abcdMatrix(network, w)[1][1]))

\* Load.resistor, Load.capacitor and Load.inductor called with v: assert(v >= 0)
Load_ofValue(kind, v) ==
    Asserted(DGeZero(v), [kind |-> kind, val |-> v, loads |-> <<>>])

\* Load.series and Load.parallel called with loads: assert(loads) holds
\* for every rest array
Load_ofLoads(kind, loads) ==
    Asserted(TRUE, [kind |-> kind, val |-> DZero, loads |-> loads])

\* TwoPortNetwork.series and TwoPortNetwork.shunt called with load:
\* assert(load instanceof Load)
TwoPortNetwork_ofLoad(kind, load) ==
    Asserted(load.kind # "number",
             [kind |-> kind, load |-> load, turns |-> DOne, stages |-> <<>>])

\* TwoPortNetwork.transformer called with turnsRatio: assert(turnsRatio),
\* which 0 and NaN fail, and assert(turnsRatio > 0)
TwoPortNetwork_ofTurns(turnsRatio) ==
    Asserted(/\ turnsRatio.cls # "nan" /\ ~IsZero(turnsRatio)
             /\ DLt(DZero, turnsRatio),
             TwoPortNetwork_transformer(turnsRatio))

\* the number a component value of the preferred-value layer stands for:
\* Tenths(10) units make 1.0
NumberOf(v) ==
    IF v.cls = "inf" THEN DInf(v.val < 0) ELSE Literal(v.val, Tenths(10))

\* makeLoad of Capacitor and Inductor on the load Component_load names
Component_makeLoad(named) ==
    IF named[1] = "capacitor" THEN Load_capacitor(NumberOf(named[2]))
    ELSE Load_inductor(NumberOf(named[2]))

\* get network() of a FilterStage: makeNetwork(Load.parallel(...loads))
FilterStage_network(role, named) ==
    LET load == Load_parallel([c \in 1 .. Len(named) |-> Component_makeLoad(named[c])])
    IN  IF role = "series" THEN TwoPortNetwork_series(load)
        ELSE TwoPortNetwork_shunt(load)

\* the TwoPortNetwork Filter_network names: cascade(series(inputLoad),
\* ...stageNetworks, shunt(outputLoad))
Filter_cascade(network) ==
    TwoPortNetwork_cascade(
        <<TwoPortNetwork_series(network.first[2])>>
        \o [s \in 1 .. Len(network.stages) |->
               FilterStage_network(network.stages[s][1], network.stages[s][2])]
        \o <<TwoPortNetwork_shunt(network.last[2])>>)

(***************************************************************************)
(* The objective function makeMatchingNetworkObjective returns             *)
(* (src/optimize.js:291-324), on the gain samples the loop reads: the      *)
(* magnitudes network.voltageGain(w).abs() in the order the loop sees      *)
(* them, here 0, a power of ten or +Infinity (the gain where the upper     *)
(* left entry of the ABCD matrix is 0).  Decibel values are the cost       *)
(* numbers                                                                 *)
(* of optimizeFilter; Math.log10 is exact on powers of ten, and the        *)
(* logarithm of any other ratio is kept by its argument.                   *)
(***************************************************************************)
MaxDecade == 3

\* Math.log10(num/den) for den > 0: -Infinity at 0, e at 10^e, otherwise
\* the irrational number named by its argument
MathLog10(num, den) ==
    IF num = 0 THEN NInf
    ELSE IF \E e \in 0 .. MaxDecade : num = den * Pow(10, e)
        THEN Fin(CHOOSE e \in 0 .. MaxDecade : num = den * Pow(10, e))
    ELSE [cls |-> "log10", val |-> <<num, den>>]

\* Math.log10(x) of a local that holds a sample, or undefined
Log10Of(x) ==
    IF x.cls = "undef" THEN NaN
    ELSE IF x.cls = "inf" THEN x
    ELSE MathLog10(x.val, 1)

\* Math.log10(gainSum / nTestSamples)
MeanLog10(gainSum, nTestSamples) ==
    IF gainSum.cls = "fin" THEN MathLog10(gainSum.val, nTestSamples) ELSE gainSum

\* k * x for a number k other than 0
Scale(k, x) ==
    IF x.cls = "nan" THEN NaN
    ELSE IF x.cls = "inf" THEN (IF k < 0 THEN FNeg(x) ELSE x)
    ELSE IF x.cls = "fin" THEN Fin(k * x.val)
    ELSE [cls |-> "scaled", val |-> <<k, x.val>>]

\* the body of the for loop on one sample
Sampled(locals, sample) ==
    [currentMinGain |->
         IF locals.currentMinGain = Undefined \/ FLt(sample, locals.currentMinGain)
         THEN sample ELSE locals.currentMinGain,
     currentMaxGain |->
         IF locals.currentMaxGain = Undefined \/ FLt(locals.currentMaxGain, sample)
         THEN sample ELSE locals.currentMaxGain,
     gainSum |-> FAdd(locals.gainSum, sample)]

\* the locals after the loop has read the first k samples
RECURSIVE Track(_, _)
Track(samples, k) ==
    IF k = 0
    THEN [currentMinGain |-> Undefined, currentMaxGain |-> Undefined,
          gainSum |-> Fin(0)]
    ELSE Sampled(Track(samples, k - 1), samples[k])

\* gainDeviation > maxGainDeviation (lines 311, 314)
Deviates(locals, maxGainDeviation) ==
    FLt(Fin(maxGainDeviation),
        FSub(Scale(10, Log10Of(locals.currentMaxGain)),
             Scale(10, Log10Of(locals.currentMinGain))))

\* lines 310-323 on the locals the loop leaves
CostOf(locals, maxGainDeviation, nTestSamples) ==
    IF Deviates(locals, maxGainDeviation) THEN PInf
    ELSE IF locals.gainSum = Fin(0) THEN PInf
    ELSE Scale(-10, MeanLog10(locals.gainSum, nTestSamples))

\* the function makeMatchingNetworkObjective returns, on the samples of a
\* network
matchingNetworkObjective(samples, maxGainDeviation, nTestSamples) ==
    CostOf(Track(samples, Len(samples)), maxGainDeviation, nTestSamples)

\* Math.PI, 0x1921FB54442D18 * 2^-51
Math_PI ==
    Double(FALSE, <<3352, 1090, 2900, 543, 25>>, -51)

\* frequency * 2 * Math.PI (lines 287-288)
AngularFrequencyOf(frequency) ==
    DMul(DMul(FromInt(frequency), FromInt(2)), Math_PI)

\* the for loop of lines 297-301 from angularFrequency = w: the angular
\* frequencies it samples, in order; `passes` bounds the passes looked at
RECURSIVE SampleLoop(_, _, _, _)
SampleLoop(w, maxAngularFrequency, step, passes) ==
    IF passes = 0 \/ ~DLt(w, maxAngularFrequency) THEN <<>>
    ELSE <<w>> \o SampleLoop(DAdd(w, step), maxAngularFrequency, step, passes - 1)

\* the loop between two angular frequencies; no loop of the calls below
\* makes nTestSamples + 2 passes
SampledBetween(minAngularFrequency, maxAngularFrequency, nTestSamples) ==
    SampleLoop(minAngularFrequency, maxAngularFrequency,
               DDiv(DSub(maxAngularFrequency, minAngularFrequency),
                    FromInt(nTestSamples)),
               nTestSamples + 2)

\* the angular frequencies one evaluation of the objective samples
sampledFrequencies(minFrequency, maxFrequency, nTestSamples) ==
    SampledBetween(AngularFrequencyOf(minFrequency),
                   AngularFrequencyOf(maxFrequency), nTestSamples)

(***************************************************************************)
(* SpecFn: one call of one of the functions that keep no state, over the   *)
(* arguments below.  `call` holds the call and what it returned.           *)
(***************************************************************************)
\* <<minValue, maxValue>> of the calls, in tenths: the ranges of SpecCV, a
\* range of the third decade, and ranges the asserts reject
FnRanges == ComponentRanges \cup {<<1000, 1100>>, <<0, 10>>, <<-10, 10>>, <<12, 10>>}

\* initialValue of the calls, in tenths
FnInitials == InitialTenths \cup {12, 1000, 1100}

\* the arrays nearestNeighborIndex is called with, in tenths
NeighborTenths == {<<10>>, <<10, 12>>, <<10, 12, 15>>, <<22, 27, 33>>}

NeighborLists ==
    LET finite(list) == [k \in 1 .. Len(list) |-> Fin(Tenths(list[k]))]
    IN  {finite(list) : list \in NeighborTenths}
        \cup {Append(finite(list), PInf) : list \in {<<10>>, <<10, 12>>}}
        \cup {<<Fin(0)>> \o finite(list) : list \in {<<10>>, <<10, 12>>}}

\* the values nearestNeighborIndex is called with
NeighborValues ==
    {Fin(Tenths(t)) : t \in {0, 5, 10, 11, 12, 13, 14, 15, 25, 27, 40}} \cup {PInf}

\* a call and what it returned
CallOf(fn, arguments, result) == [fn |-> fn, args |-> arguments, result |-> result]

\* nothing but `call` changes
FnFrame ==
    UNCHANGED <<cvVars, pc, args, filterHeap, objective, filter, temperature,
                objectiveValue, i, returned, iter, stats>>

Call_feasiblePreferredValues ==
    /\ call = NoCall
    /\ \E range \in FnRanges :
           call' = CallOf("feasiblePreferredValues", <<Tenths(range[1]), Tenths(range[2])>>,
                  feasiblePreferredValues(Tenths(range[1]), Tenths(range[2])))
    /\ FnFrame

Call_nearestNeighborIndex ==
    /\ call = NoCall
    /\ \E val \in NeighborValues, neighbors \in NeighborLists :
           call' = CallOf("nearestNeighborIndex", <<val, neighbors>>,
                  nearestNeighborIndex(val, neighbors))
    /\ FnFrame

\* args: <<initialValue, maxValue, minValue, allowZero, allowInfinite>>
Call_initializeComponent ==
    /\ call = NoCall
    /\ \E range \in FnRanges, initial \in FnInitials,
          allowZero \in BOOLEAN, allowInfinite \in BOOLEAN :
           call' = CallOf("initializeComponent",
                  <<Tenths(initial), Tenths(range[2]), Tenths(range[1]),
                    allowZero, allowInfinite>>,
                  initializeComponent(Tenths(initial), Tenths(range[2]),
                                      Tenths(range[1]), allowZero, allowInfinite))
    /\ FnFrame

\* args: <<maxValue, minValue, allowZero, allowInfinite>> and the draw
Call_randomizeComponent ==
    /\ call = NoCall
    /\ \E range \in FnRanges, rn \in Draws,
          allowZero \in BOOLEAN, allowInfinite \in BOOLEAN :
           call' = CallOf("randomizeComponent",
                  <<Tenths(range[2]), Tenths(range[1]), allowZero, allowInfinite, rn>>,
                  randomizeComponent(Tenths(range[2]), Tenths(range[1]),
                                     allowZero, allowInfinite, rn))
    /\ FnFrame

\* the angular frequencies networks and loads are evaluated at
AngularFrequencies ==
    {DOne, Literal(3, 10)}

\* the terminations of the filters: a resistor, and a resistor beside a
\* capacitor as in src/trial.js
Terminations ==
    {Load_resistor(FromInt(50)),
     Load_parallel(<<Load_resistor(FromInt(75)), Load_capacitor(Literal(1, 10))>>)}

\* the filters whose network is evaluated: no stage; a series inductor; a
\* series inductor beside a capacitor, then a shunt capacitor; a shunt
\* inductor, then a series capacitor.  Every component value is finite
\* and positive.
NetworkFilters ==
    {[inputLoad |-> inputLoad, outputLoad |-> outputLoad, stages |-> stages] :
        inputLoad \in Terminations, outputLoad \in Terminations,
        stages \in
          {<<>>,
           <<[role |-> "series",
              components |-> <<Built("inductor", 11, <<10, 12>>, FALSE, FALSE)>>]>>,
           <<[role |-> "series",
              components |-> <<Built("inductor", 10, <<10, 12>>, FALSE, FALSE),
                               Built("capacitor", 12, <<10, 12>>, FALSE, FALSE)>>],
             [role |-> "shunt",
              components |-> <<Built("capacitor", 11, <<10, 11>>, FALSE, FALSE)>>]>>,
           <<[role |-> "shunt",
              components |-> <<Built("inductor", 11, <<10, 12>>, FALSE, FALSE)>>],
             [role |-> "series",
              components |-> <<Built("capacitor", 10, <<10, 10>>, FALSE, FALSE)>>]>>}}

\* filter.network.abcdMatrix(w) for every filter and frequency
NetworkCalls ==
    {CallOf("network", <<f, w>>,
            LET built == Filter_network(f)
            IN  [raised |-> built.raised,
                 matrix |-> IF built.raised THEN <<>>
                            ELSE abcdMatrix(Filter_cascade(built.network), w)]) :
        f \in NetworkFilters, w \in AngularFrequencies}

Call_network ==
    /\ call = NoCall
    /\ \E made \in NetworkCalls : call' = made
    /\ FnFrame

\* the stages cascade is called with: series resistors of 0.1, 0.2 and 0.3,
\* a shunt resistor of 2, a series inductor of 1
CascadeStages ==
    {TwoPortNetwork_series(Load_resistor(Literal(1, 10))),
     TwoPortNetwork_series(Load_resistor(Literal(2, 10))),
     TwoPortNetwork_series(Load_resistor(Literal(3, 10))),
     TwoPortNetwork_shunt(Load_resistor(FromInt(2))),
     TwoPortNetwork_series(Load_inductor(DOne))}

\* the networks a call builds from the stages a, b and c
CascadeNetworks(a, b, c) ==
    [none |-> TwoPortNetwork_cascade(<<>>),
     unit |-> TwoPortNetwork_identity,
     gain |-> TwoPortNetwork_cascade(<<>>),
     left |-> TwoPortNetwork_cascade(<<TwoPortNetwork_cascade(<<a, b>>), c>>),
     right |-> TwoPortNetwork_cascade(<<a, TwoPortNetwork_cascade(<<b, c>>)>>),
     flat |-> TwoPortNetwork_cascade(<<a, b, c>>),
     pair |-> TwoPortNetwork_cascade(<<a, b>>),
     swapped |-> TwoPortNetwork_cascade(<<b, a>>)]

\* the voltage gain at w of the network named gain, the ABCD matrix at w of
\* every other one
CascadeResults(networks, w) ==
    [name \in DOMAIN networks |->
        IF name = "gain" THEN voltageGain(networks[name], w).value
        ELSE abcdMatrix(networks[name], w)]

\* the ABCD matrices at w of cascade(), identity(), cascade(cascade(a, b), c),
\* cascade(a, cascade(b, c)), cascade(a, b, c), cascade(a, b), cascade(b, a),
\* and the voltage gain of cascade()
CascadeCalls ==
    {CallOf("cascade", <<a, b, c, w>>, CascadeResults(CascadeNetworks(a, b, c), w)) :
        a \in CascadeStages, b \in CascadeStages, c \in CascadeStages,
        w \in AngularFrequencies}

Call_cascade ==
    /\ call = NoCall
    /\ \E made \in CascadeCalls : call' = made
    /\ FnFrame

\* the gains a network has at the sampled frequencies
Gains == {0} \cup {Pow(10, e) : e \in 0 .. (MaxDecade - 1)}

\* maxGainDeviation of the calls, in dB
GainDeviations == {5, 15, 25}

MaxSamples == 2

\* the samples the loop reads: nTestSamples of them, or one more, or none
\* (minFrequency >= maxFrequency); a sample is a gain or +Infinity
SampleLists ==
    UNION {[1 .. n -> {Fin(g) : g \in Gains} \cup {PInf}] :
              n \in 0 .. (MaxSamples + 1)}

Call_objective ==
    /\ call = NoCall
    /\ \E samples \in SampleLists, maxGainDeviation \in GainDeviations,
          nTestSamples \in 1 .. MaxSamples :
           /\ Len(samples) \in {0, nTestSamples, nTestSamples + 1}
           /\ call' = CallOf("objective",
                             <<samples, maxGainDeviation, nTestSamples>>,
                             matchingNetworkObjective(samples, maxGainDeviation,
                                                      nTestSamples))
    /\ FnFrame

\* minFrequency and maxFrequency of the calls are 1 .. MaxFrequency,
\* nTestSamples is 1 .. MaxTestSamples
MaxFrequency == 4

MaxTestSamples == 4

\* one evaluation of an objective made for minFrequency < maxFrequency
SamplingCalls ==
    {CallOf("sampling", <<minFrequency, maxFrequency, nTestSamples>>,
            sampledFrequencies(minFrequency, maxFrequency, nTestSamples)) :
        minFrequency \in 1 .. (MaxFrequency - 1),
        maxFrequency \in 2 .. MaxFrequency,
        nTestSamples \in 1 .. MaxTestSamples}

Call_sampling ==
    /\ call = NoCall
    /\ \E made \in SamplingCalls :
           /\ made.args[1] < made.args[2]
           /\ call' = made
    /\ FnFrame

\* the loads series and parallel are called with: resistors of 49, 0.1,
\* 0.2 and 0.3, and an inductor of 1
CombinedLoads ==
    {Load_resistor(FromInt(49)),
     Load_resistor(Literal(1, 10)),
     Load_resistor(Literal(2, 10)),
     Load_resistor(Literal(3, 10)),
     Load_inductor(DOne)}

\* the loads a call builds from the loads a, b and c
CombinedOf(a, b, c) ==
    [own |-> a,
     noSeries |-> Load_series(<<>>),
     noParallel |-> Load_parallel(<<>>),
     noParallelAdmittance |-> Load_parallel(<<>>),
     seriesBesideNone |-> Load_series(<<a, Load_series(<<>>)>>),
     parallelBesideNone |-> Load_parallel(<<a, Load_parallel(<<>>)>>),
     seriesNested |-> Load_series(<<a, Load_series(<<b, c>>)>>),
     seriesFlat |-> Load_series(<<a, b, c>>),
     parallelNested |-> Load_parallel(<<a, Load_parallel(<<b, c>>)>>),
     parallelFlat |-> Load_parallel(<<a, b, c>>)]

\* the admittance at w of the load named noParallelAdmittance, the impedance
\* at w of every other one
LoadResults(loads, w) ==
    [name \in DOMAIN loads |->
        IF name = "noParallelAdmittance" THEN Load_admittance(loads[name], w)
        ELSE Load_impedance(loads[name], w)]

\* the impedances at w of a, of series() and parallel() (and the admittance
\* of parallel()), of series(a, series()), parallel(a, parallel()),
\* series(a, series(b, c)), series(a, b, c), parallel(a, parallel(b, c))
\* and parallel(a, b, c)
LoadCalls ==
    {CallOf("load", <<a, b, c, w>>, LoadResults(CombinedOf(a, b, c), w)) :
        a \in CombinedLoads, b \in CombinedLoads, c \in CombinedLoads,
        w \in AngularFrequencies}

Call_load ==
    /\ call = NoCall
    /\ \E made \in LoadCalls : call' = made
    /\ FnFrame

\* the loads of the single elements: the resistor and the capacitor of
\* twoPortNetwork.test.js, an inductor, a capacitor of 0 farad, the empty
\* parallel combination and a resistor in series with an inductor
GainLoads ==
    {Load_resistor(FromInt(50)),
     Load_capacitor(Literal(1, 100)),
     Load_inductor(DOne),
     Load_capacitor(DZero),
     Load_parallel(<<>>),
     Load_series(<<Load_resistor(FromInt(50)), Load_inductor(DOne)>>)}

\* series(load), shunt(load), transformer(n) for n = 1/2, 2 and 3, identity()
GainNetworks ==
    {TwoPortNetwork_series(load) : load \in GainLoads}
    \cup {TwoPortNetwork_shunt(load) : load \in GainLoads}
    \cup {TwoPortNetwork_transformer(n) : n \in {Literal(1, 2), FromInt(2), FromInt(3)}}
    \cup {TwoPortNetwork_identity}

\* angular frequencies below 0, 0 and above 0
GainFrequencies ==
    {DNeg(DOne), DNeg(Literal(1, 10)), DZero, Literal(3, 10), DOne, FromInt(4)}

\* network.voltageGain(w), and load.impedance(w) and load.admittance(w) of
\* the load of the network
GainCalls ==
    {CallOf("gain", <<network, w>>,
            [gain |-> voltageGain(network, w),
             impedance |-> impedance(network.load, w),
             admittance |-> admittance(network.load, w)]) :
        network \in GainNetworks, w \in GainFrequencies}

Call_gain ==
    /\ call = NoCall
    /\ \E made \in GainCalls : call' = made
    /\ FnFrame

\* the numbers the constructors of one value are called with
ConstructValues ==
    {DNeg(DOne), DNeg(Literal(1, 10)), DZero, Literal(1, 10), DOne, FromInt(50)}

\* the lists Load.series and Load.parallel are called with
ConstructLists ==
    {<<>>, <<Load_resistor(FromInt(50))>>, <<NotALoad>>,
     <<Load_resistor(FromInt(50)), NotALoad>>}

\* <<constructor, argument>> of the calls
ConstructArguments ==
    ({"resistor", "capacitor", "inductor", "transformer"} \X ConstructValues)
    \cup ({"series", "parallel"} \X ConstructLists)
    \cup ({"seriesNetwork", "shuntNetwork"} \X {Load_resistor(FromInt(50)), NotALoad})

\* the static function named `constructor` called with `argument`
Construct(constructor, argument) ==
    IF constructor \in {"resistor", "capacitor", "inductor"}
    THEN Load_ofValue(constructor, argument)
    ELSE IF constructor \in {"series", "parallel"}
        THEN Load_ofLoads(constructor, argument)
    ELSE IF constructor = "transformer" THEN TwoPortNetwork_ofTurns(argument)
    ELSE TwoPortNetwork_ofLoad(IF constructor = "seriesNetwork" THEN "series"
                               ELSE "shunt", argument)

\* the first frequency evaluation of what was made: the impedance of a
\* load, the voltage gain of a network
Evaluated(made, w) ==
    IF made.raised THEN made
    ELSE IF "stages" \in DOMAIN made.value THEN voltageGain(made.value, w)
    ELSE impedance(made.value, w)

\* a constructor call and, when it returned, an evaluation at w = 1
ConstructCalls ==
    {CallOf("construct", a,
            [made |-> Construct(a[1], a[2]),
             evaluated |-> Evaluated(Construct(a[1], a[2]), DOne)]) :
        a \in ConstructArguments}

Call_construct ==
    /\ call = NoCall
    /\ \E made \in ConstructCalls : call' = made
    /\ FnFrame

\* the filters update() is called on: two components inside their tables
\* and one with a single feasible value in one stage; a stage of one component inside its table and a stage of
\* a component at index 0 beside one at the last index; three components
\* inside their tables in two stages
UpdateFilters ==
    {[inputLoad |-> "source", outputLoad |-> "load", stages |-> stages] :
        stages \in
          {<<[role |-> "series",
              components |-> <<Built("inductor", 11, <<10, 12>>, FALSE, FALSE),
                               Built("capacitor", 11, <<10, 12>>, FALSE, FALSE),
                               Built("capacitor", 10, <<10, 10>>, FALSE, FALSE)>>]>>,
           <<[role |-> "series",
              components |-> <<Built("inductor", 11, <<10, 12>>, FALSE, FALSE)>>],
             [role |-> "shunt",
              components |-> <<Built("capacitor", 10, <<10, 12>>, FALSE, FALSE),
                               Built("inductor", 12, <<10, 12>>, FALSE, FALSE)>>]>>,
           <<[role |-> "series",
              components |-> <<Built("inductor", 11, <<10, 12>>, FALSE, FALSE),
                               Built("capacitor", 10, <<10, 11>>, TRUE, TRUE)>>],
             [role |-> "shunt",
              components |-> <<Built("capacitor", 11, <<10, 11>>, FALSE, TRUE)>>]>>}}

\* filter.update() with one draw of Math.random() per component
UpdateCalls ==
    UNION {{CallOf("update", <<f, rns>>, Filter_update(f, rns)) :
               rns \in [1 .. NumComponents(f) -> Draws]} : f \in UpdateFilters}

Call_update ==
    /\ call = NoCall
    /\ \E made \in UpdateCalls : call' = made
    /\ FnFrame

InitFn == CVIdle /\ OptIdle

NextFn ==
    \/ Call_feasiblePreferredValues
    \/ Call_nearestNeighborIndex
    \/ Call_initializeComponent
    \/ Call_randomizeComponent
    \/ Call_network
    \/ Call_cascade
    \/ Call_objective
    \/ Call_sampling
    \/ Call_load
    \/ Call_gain
    \/ Call_construct
    \/ Call_update

SpecFn == InitFn /\ [][NextFn]_vars

(***************************************************************************)
(* Properties of optimizeFilter (specification Spec).                      *)
(***************************************************************************)
\* C1: at every iteration, whatever the temperature and the draw, a
\* candidate whose cost is <= the current cost (finite or +Infinity, equal
\* costs and both +Infinity included) is accepted: it becomes the current
\* filter and its cost the current cost.
C1_NotWorseIsAccepted ==
    (iter.ran /\ FLe(iter.candidateObjectiveValue, iter.objectiveValue))
        => /\ iter.accepted
           /\ filter = iter.candidate
           /\ objectiveValue = iter.candidateObjectiveValue

\* C2: optimizeFilter returns the filter `filter` refers to after the last
\* iteration, which is the most recently accepted candidate, or the initial
\* filter when none was accepted; objectiveValue is that filter's cost, and
\* no better filter seen earlier is restored.
C2_ReturnsFinalCurrent ==
    pc = "done"
        => /\ returned = filter
           /\ returned = stats.lastAccepted
           /\ returned \in DOMAIN filterHeap
           /\ objective[Filter_network(filterHeap[returned]).network] = objectiveValue

\* C2, its case: a run that returned an accepted candidate whose cost is
\* strictly greater than the cost of a filter that was current earlier
C2_ReturnedWorseThanEarlier ==
    /\ pc = "done"
    /\ returned # 0
    /\ FLt(stats.bestCost, objectiveValue)

\* C3: a call with iterations = 0 returns the initial filter, without any
\* update() and without raising.
C3_ZeroIterationsReturnsInitial ==
    (args.iterations = 0 /\ pc # "call")
        => /\ pc \in {"loop", "done"}
           /\ stats.updates = 0
           /\ (pc = "done" => returned = 0)

\* C4: a call with iterations >= 1 ends by returning after exactly
\* `iterations` iterations: update() was called `iterations` times and the
\* objective evaluated iterations + 1 times.
C4_RunsEveryIteration ==
    (args.iterations >= 1 /\ pc \in {"done", "raised"})
        => /\ pc = "done"
           /\ i = args.iterations
           /\ stats.updates = args.iterations
           /\ stats.evaluations = args.iterations + 1

\* C5: at temperature 0 a candidate of strictly greater cost than the
\* current one is not accepted, whatever the draw, so the current cost does
\* not increase.
C5_ZeroTemperatureRejectsWorse ==
    (iter.ran /\ iter.temperature = 0
        /\ FLt(iter.objectiveValue, iter.candidateObjectiveValue))
        => /\ ~iter.accepted
           /\ objectiveValue = iter.objectiveValue

\* C6: a finite current cost stays finite: at a temperature > 0 a candidate
\* of cost +Infinity is not accepted over a current filter of finite cost,
\* whatever the draw.
C6_FiniteStaysFinite ==
    (iter.ran /\ IsFinite(iter.objectiveValue))
        => /\ IsFinite(objectiveValue)
           /\ (iter.temperature > 0 /\ iter.candidateObjectiveValue = PInf
                  => ~iter.accepted)

(***************************************************************************)
(* Properties of ComponentValue (specification SpecCV).                    *)
(***************************************************************************)
\* the array an object's feasibleValues refers to
TableOf(v) == tableHeap[cvHeap[v].feasibleValues]

\* C7: every ComponentValue made by initializeComponent or
\* randomizeComponent and by any number of update() calls has
\* 0 <= valueIndex < feasibleValues.length, whatever the length of the array.
C7_IndexInRange ==
    \A v \in 1 .. Len(cvHeap) :
        cvHeap[v].valueIndex >= 0 /\ cvHeap[v].valueIndex < Len(TableOf(v))

\* C8: update() of a ComponentValue whose array has exactly one element
\* returns a ComponentValue at index 0, of the same value.
C8_SingleElementFixedPoint ==
    (cvLast.op = "update" /\ Len(TableOf(cvLast.receiver)) = 1)
        => /\ cvHeap[cvLast.result].valueIndex = 0
           /\ value(TableOf(cvLast.result), cvHeap[cvLast.result].valueIndex)
                = value(TableOf(cvLast.receiver), cvHeap[cvLast.receiver].valueIndex)

\* C9: update() of a ComponentValue whose array has at least two elements
\* returns a value of the same array exactly one index step away: index 1
\* from index 0, index last-1 from the last index, and i-1 or i+1 from an
\* interior index i, each of the two for some draw.
C9_OneStep ==
    (cvLast.op = "update" /\ Len(TableOf(cvLast.receiver)) >= 2)
        => LET n == Len(TableOf(cvLast.receiver))
               from == cvHeap[cvLast.receiver].valueIndex
               to == cvHeap[cvLast.result].valueIndex
           IN  /\ cvHeap[cvLast.result].feasibleValues
                    = cvHeap[cvLast.receiver].feasibleValues
               /\ to >= 0 /\ to < n
               /\ to - from \in {-1, 1}
               /\ from = 0 => to = 1
               /\ from = n - 1 => to = n - 2
               /\ (from > 0 /\ from < n - 1)
                    => {_nextIndex(from, n, rn) : rn \in Draws} = {from - 1, from + 1}

\* C9, its case: update() from an interior index that stepped up
C9_InteriorStepUp ==
    /\ cvLast.op = "update"
    /\ cvHeap[cvLast.receiver].valueIndex > 0
    /\ cvHeap[cvLast.receiver].valueIndex < Len(TableOf(cvLast.receiver)) - 1
    /\ cvHeap[cvLast.result].valueIndex = cvHeap[cvLast.receiver].valueIndex + 1

\* C10: update() does not change its receiver (nor any other object, nor
\* the contents of any array) and returns a new object that refers to the
\* receiver's own array.
C10_UpdateFrame ==
    [][(cvLast'.op = "update" /\ Len(cvHeap') > Len(cvHeap))
        => /\ \A w \in 1 .. Len(cvHeap) : cvHeap'[w] = cvHeap[w]
           /\ tableHeap' = tableHeap
           /\ cvLast'.result \notin 1 .. Len(cvHeap)
           /\ cvLast'.result # cvLast'.receiver
           /\ cvHeap'[cvLast'.result].feasibleValues
                = cvHeap[cvLast'.receiver].feasibleValues]_vars

\* C10, its case: update() returned an object at another index than its
\* receiver's, while another array of the same contents exists
C10_UpdatedBesideEqualTable ==
    /\ cvLast.op = "update"
    /\ cvHeap[cvLast.result].valueIndex # cvHeap[cvLast.receiver].valueIndex
    /\ \E t \in 1 .. Len(tableHeap) :
          /\ t # cvHeap[cvLast.receiver].feasibleValues
          /\ tableHeap[t] = TableOf(cvLast.receiver)

(***************************************************************************)
(* Properties of the functions (specification SpecFn).                     *)
(***************************************************************************)
\* C11: for initial >= 0 and 0 < min <= max, with any allowZero and
\* allowInfinite, initializeComponent returns a ComponentValue whose value
\* is the member nearest to `initial` of the table of the E24 values in
\* [min, max], with 0 and +Infinity when allowed; initial = 0 and initial
\* above the largest finite member included.
C11_InitializeSnapsToNearest ==
    (/\ call.fn = "initializeComponent"
     /\ call.args[1] >= 0
     /\ call.args[3] > 0
     /\ call.args[2] >= call.args[3])
        => LET initial == Fin(call.args[1])
               members ==
                   {Fin(Tenths(E24_VALUES[j] * Pow(10, k))) :
                        j \in 1 .. Len(E24_VALUES), k \in 0 .. 3}
               table ==
                   {m \in members : m.val >= call.args[3] /\ m.val <= call.args[2]}
                   \cup (IF call.args[4] THEN {Fin(0)} ELSE {})
                   \cup (IF call.args[5] THEN {PInf} ELSE {})
               got == value(call.result.feasibleValues, call.result.valueIndex)
               distance(m) == FAbs(FSub(initial, m))
           IN  /\ ~call.result.raised
               /\ got \in table
               /\ \A m \in table : FLe(distance(got), distance(m))

\* C12: for a non-empty strictly ascending list and 0 < v <= its last
\* element, nearestNeighborIndex returns 0 when v <= the first element;
\* otherwise, with i the first index whose element is >= v, it returns i when
\* |v - sorted[i]| <= |v - sorted[i-1]| and i-1 otherwise.  Every element of
\* the list is mapped to its own index, and the result is never -1.
C12_NearestNeighbor ==
    LET v == call.args[1]
        sorted == call.args[2]
        at(k) == sorted[k + 1]
        distance(a, b) == IF a = b THEN Fin(0) ELSE FAbs(FSub(a, b))
        first == CHOOSE k \in 0 .. (Len(sorted) - 1) :
                    /\ FLe(v, at(k))
                    /\ \A h \in 0 .. (k - 1) : ~FLe(v, at(h))
        expected == IF first = 0 THEN 0
                    ELSE IF FLe(distance(v, at(first)), distance(v, at(first - 1)))
                         THEN first
                         ELSE first - 1
    IN  (/\ call.fn = "nearestNeighborIndex"
         /\ Len(sorted) >= 1
         /\ \A k \in 1 .. (Len(sorted) - 1) : FLt(at(k - 1), at(k))
         /\ FLt(Fin(0), v)
         /\ FLe(v, at(Len(sorted) - 1)))
            => /\ ~call.result.raised
               /\ call.result.index = expected
               /\ call.result.index # -1
               /\ (\E k \in 0 .. (Len(sorted) - 1) : at(k) = v)
                     => at(call.result.index) = v

\* C13: for 0 < min <= max, feasiblePreferredValues returns exactly the
\* values e * 10^k, e an E24 value and k a decade, that lie in [min, max],
\* strictly ascending; the table initializeComponent makes of it by
\* prepending 0 and appending +Infinity is strictly ascending too.
C13_ExactlyThePreferredValues ==
    LET ascending(values) ==
            \A k \in 1 .. (Len(values) - 1) : FLt(values[k], values[k + 1])
        members ==
            {Fin(Tenths(E24_VALUES[j] * Pow(10, k))) :
                 j \in 1 .. Len(E24_VALUES), k \in 0 .. 3}
    IN  /\ (/\ call.fn = "feasiblePreferredValues"
            /\ call.args[1] > 0
            /\ call.args[2] >= call.args[1])
               => /\ ~call.result.raised
                  /\ ascending(call.result.values)
                  /\ {call.result.values[k] : k \in 1 .. Len(call.result.values)}
                       = {m \in members : /\ m.val >= call.args[1]
                                          /\ m.val <= call.args[2]}
        /\ (call.fn = "initializeComponent" /\ ~call.result.raised)
               => ascending(call.result.feasibleValues)

\* C14: feasiblePreferredValues, initializeComponent and randomizeComponent
\* raise whenever min <= 0 or max < min, and return no table and no
\* ComponentValue then.
C14_BadRangeRaises ==
    LET bad(minValue, maxValue) == minValue <= 0 \/ maxValue < minValue
    IN  /\ (call.fn = "feasiblePreferredValues" /\ bad(call.args[1], call.args[2]))
               => call.result.raised /\ call.result.values = <<>>
        /\ (call.fn = "initializeComponent" /\ bad(call.args[3], call.args[2]))
               => call.result.raised /\ call.result.feasibleValues = <<>>
        /\ (call.fn = "randomizeComponent" /\ bad(call.args[2], call.args[1]))
               => call.result.raised /\ call.result.feasibleValues = <<>>

\* C14, its case: feasiblePreferredValues was called with max < min and
\* raised
C14_RaisedOnReversedRange ==
    /\ call.fn = "feasiblePreferredValues"
    /\ call.args[1] > 0
    /\ call.args[2] < call.args[1]
    /\ call.result.raised

(***************************************************************************)
(* Claims about Filter.network, TwoPortNetwork.cascade and Load.           *)
(***************************************************************************)
\* the product of a list of matrices taken from the left, M1 . M2 . ... . Mn
RECURSIVE LeftProduct(_)
LeftProduct(ms) ==
    IF Len(ms) = 1 THEN ms[1]
    ELSE matrixMuliply(LeftProduct(SubSeq(ms, 1, Len(ms) - 1)), ms[Len(ms)])

\* the matrix of every stage of filter f at w, in list order
StageMatrices(f, w) ==
    [s \in 1 .. Len(f.stages) |->
        abcdMatrix(FilterStage_network(
                       f.stages[s].role,
                       [c \in 1 .. Len(f.stages[s].components) |->
                           Component_load(f.stages[s].components[c]).load]),
                   w)]

\* C15: the ABCD matrix of Filter.network is the left-to-right product
\* M(series(inputLoad)) . M(s1.network) ... M(sn.network) . M(shunt(outputLoad)),
\* for filters whose component values are finite and positive
C15_NetworkIsTerminatedProduct ==
    call.fn = "network" =>
        LET f == call.args[1]
            w == call.args[2]
        IN  /\ ~call.result.raised
            /\ call.result.matrix =
                   LeftProduct(<<abcdMatrix(TwoPortNetwork_series(f.inputLoad), w)>>
                               \o StageMatrices(f, w)
                               \o <<abcdMatrix(TwoPortNetwork_shunt(f.outputLoad), w)>>)

\* a filter of two stages whose network differs from the product that takes
\* the two stages in the other order
C15_TwoStagesInListOrder ==
    /\ call.fn = "network"
    /\ Len(call.args[1].stages) = 2
    /\ LET f == call.args[1]
           w == call.args[2]
           ms == StageMatrices(f, w)
       IN  call.result.matrix #
               LeftProduct(<<abcdMatrix(TwoPortNetwork_series(f.inputLoad), w),
                             ms[2], ms[1],
                             abcdMatrix(TwoPortNetwork_shunt(f.outputLoad), w)>>)

\* the unit matrix [[1, 0], [0, 1]]
UnitMatrix ==
    TwoPortMatrix(<<<<DOne, DZero>>, <<DZero, DOne>>>>)

\* C16: cascade() has the ABCD matrix of identity(), the unit matrix, and
\* voltage gain 1; cascade(cascade(a, b), c), cascade(a, cascade(b, c)) and
\* cascade(a, b, c) have equal ABCD matrices; cascade(a, b) has the matrix
\* M(a) . M(b)
C16_CascadeAssociativeWithUnit ==
    call.fn = "cascade" =>
        /\ call.result.none = call.result.unit
        /\ call.result.none = UnitMatrix
        /\ call.result.gain = Complex(DOne, DZero)
        /\ call.result.left = call.result.flat
        /\ call.result.right = call.result.flat
        /\ call.result.pair =
               matrixMuliply(abcdMatrix(call.args[1], call.args[4]),
                             abcdMatrix(call.args[2], call.args[4]))

(***************************************************************************)
(* Claims about Filter.update (specification Spec).                        *)
(***************************************************************************)
\* g has the terminations of f, its stages in number, order and role, and
\* in every stage its components in number and order, each with the name
\* (which fixes the Load constructor) and the table of values of f's
SameTopology(g, f) ==
    /\ g.inputLoad = f.inputLoad
    /\ g.outputLoad = f.outputLoad
    /\ Len(g.stages) = Len(f.stages)
    /\ \A s \in 1 .. Len(f.stages) :
          /\ g.stages[s].role = f.stages[s].role
          /\ Len(g.stages[s].components) = Len(f.stages[s].components)
          /\ \A c \in 1 .. Len(f.stages[s].components) :
                /\ g.stages[s].components[c].componentName
                      = f.stages[s].components[c].componentName
                /\ g.stages[s].components[c].feasibleValues
                      = f.stages[s].components[c].feasibleValues

\* C17: every filter made by update(), after any number of successive
\* updates, has the inputLoad and outputLoad of the initial filter, the same
\* stages in number, order and role, and the same components in number,
\* order, name and Load constructor: only value indices differ
C17_UpdateKeepsTopology ==
    \A k \in DOMAIN filterHeap : SameTopology(filterHeap[k], filterHeap[0])

\* C17, its case: the current filter of two stages was made by the second
\* update() from the result of the first (every update() moves every index
\* by one, so only a second update in a row leads back to the initial
\* indices)
C17_TwiceUpdated ==
    /\ filter = 2
    /\ Len(filterHeap[0].stages) = 2
    /\ filterHeap[filter] = filterHeap[0]

(***************************************************************************)
(* Claims about the matching-network objective (specification SpecFn).     *)
(***************************************************************************)
\* the largest and the smallest of the samples, of one sample or more
MaxSample(samples) ==
    CHOOSE g \in {samples[k] : k \in 1 .. Len(samples)} :
        \A k \in 1 .. Len(samples) : FLe(samples[k], g)

MinSample(samples) ==
    CHOOSE g \in {samples[k] : k \in 1 .. Len(samples)} :
        \A k \in 1 .. Len(samples) : FLe(g, samples[k])

\* 20 * log10(hi / lo): Infinity / Infinity and 0 / 0 are NaN, x / 0 and
\* Infinity / x are +Infinity
RatioDb(hi, lo) ==
    IF hi.cls = "inf" THEN (IF lo.cls = "inf" THEN NaN ELSE PInf)
    ELSE IF lo.val = 0 THEN (IF hi.val = 0 THEN NaN ELSE PInf)
    ELSE Scale(20, MathLog10(hi.val, lo.val))

\* 20 * log10(maxSample / minSample), NaN where there is no sample
PeakToTroughDb(samples) ==
    IF samples = <<>> THEN NaN
    ELSE RatioDb(MaxSample(samples), MinSample(samples))

\* the sum of the samples
RECURSIVE SumOf(_)
SumOf(samples) ==
    IF samples = <<>> THEN Fin(0) ELSE FAdd(Head(samples), SumOf(Tail(samples)))

\* C18: the objective returns +Infinity whenever 20*log10(maxSample/minSample)
\* exceeds maxGainDeviationDb, whatever the mean gain; +Infinity when the
\* mean gain is 0; otherwise -10*log10(meanGain)
C18_DeviationSentinel ==
    call.fn = "objective" =>
        call.result =
            IF FLt(Fin(call.args[2]), PeakToTroughDb(call.args[1])) THEN PInf
            ELSE IF SumOf(call.args[1]) = Fin(0) THEN PInf
            ELSE Scale(-10, MeanLog10(SumOf(call.args[1]), call.args[3]))

\* C19: for minFrequency < maxFrequency and nSamples >= 1 one evaluation
\* samples exactly nSamples angular frequencies, the first of them
\* 2*pi*minFrequency, all of them below 2*pi*maxFrequency, which is never
\* evaluated (so that the mean, the sum divided by nSamples, is the mean of
\* the samples)
C19_ExactlyNSamples ==
    call.fn = "sampling" =>
        /\ Len(call.result) = call.args[3]
        /\ call.result[1] = AngularFrequencyOf(call.args[1])
        /\ \A k \in 1 .. Len(call.result) :
               DLt(call.result[k], AngularFrequencyOf(call.args[2]))

(***************************************************************************)
(* Claims about Load.series and Load.parallel (specification SpecFn).      *)
(***************************************************************************)
\* the sum of the values vs, from the number 0
RECURSIVE SumFromZero(_)
SumFromZero(vs) ==
    IF vs = <<>> THEN DZero
    ELSE math_add(SumFromZero(SubSeq(vs, 1, Len(vs) - 1)), vs[Len(vs)])

\* C20: series(l1..ln).impedance is the sum of the li impedances and
\* parallel(l1..ln).impedance the reciprocal of the sum of the li
\* admittances; series() has zero impedance, parallel() infinite impedance
\* and zero admittance; series(a, series()) and parallel(a, parallel())
\* have the impedance of a; series(a, series(b, c)) has the impedance of
\* series(a, b, c), and likewise for parallel
C20_SeriesParallelMonoid ==
    call.fn = "load" =>
        LET a == call.args[1]
            b == call.args[2]
            c == call.args[3]
            w == call.args[4]
        IN  /\ call.result.seriesFlat =
                   SumFromZero(<<Load_impedance(a, w), Load_impedance(b, w),
                                 Load_impedance(c, w)>>)
            /\ call.result.parallelFlat =
                   Load_reciprocal(
                       SumFromZero(<<Load_admittance(a, w), Load_admittance(b, w),
                                     Load_admittance(c, w)>>))
            /\ ToComplex(call.result.noSeries) = Complex(DZero, DZero)
            /\ call.result.noParallel = DInf(FALSE)
            /\ call.result.noParallelAdmittance = DZero
            /\ call.result.seriesBesideNone = call.result.own
            /\ call.result.parallelBesideNone = call.result.own
            /\ call.result.seriesNested = call.result.seriesFlat
            /\ call.result.parallelNested = call.result.parallelFlat

(***************************************************************************)
(* C21: series(load) and shunt(load) alone have voltage gain (1, 0) at     *)
(* every angular frequency >= 0, transformer(n) has (1/n, 0), identity()   *)
(* has (1, 0); the gain is the reciprocal of the upper left entry of the   *)
(* ABCD matrix.                                                            *)
(***************************************************************************)
C21_SingleElementGain ==
    (call.fn = "gain" /\ DGeZero(call.args[2]))
        => LET network == call.args[1]
               gain == call.result.gain
           IN  /\ ~gain.raised
               /\ gain.value =
                      TwoPortNetwork_reciprocal(
                          abcdMatrix(network, call.args[2])[1][1])
               /\ network.kind \in {"series", "shunt"}
                      => gain.value = Complex(DOne, DZero)
               /\ network.kind = "transformer"
                      => gain.value = Complex(DDiv(DOne, network.turns), DZero)
               /\ network = TwoPortNetwork_identity
                      => gain.value = Complex(DOne, DZero)

\* the shunt capacitor of 0.01 at angular frequency 4 has gain (1, 0), and
\* transformer(2) has gain (0.5, 0)
C21_ShuntCapacitorGain ==
    /\ call.fn = "gain"
    /\ call.args = <<TwoPortNetwork_shunt(Load_capacitor(Literal(1, 100))),
                     FromInt(4)>>
    /\ call.result.gain = [raised |-> FALSE, value |-> Complex(DOne, DZero)]
    /\ voltageGain(TwoPortNetwork_transformer(FromInt(2)), FromInt(4)).value
           = Complex(Literal(1, 2), DZero)

(***************************************************************************)
(* C22: impedance, admittance and voltageGain raise, and return nothing,   *)
(* for every angular frequency < 0, and do not raise for any >= 0.         *)
(***************************************************************************)
C22_NegativeFrequencyRaises ==
    call.fn = "gain"
        => \A method \in {"gain", "impedance", "admittance"} :
              /\ call.result[method].raised = DLt(call.args[2], DZero)
              /\ call.result[method].raised = ~DGeZero(call.args[2])
              /\ call.result[method].raised => call.result[method].value = <<>>

C22_RaisedBelowZero ==
    /\ call.fn = "gain"
    /\ call.args[2] = DNeg(Literal(1, 10))
    /\ call.args[1].kind = "series"
    /\ call.result.gain.raised
    /\ call.result.impedance.raised
    /\ call.result.admittance.raised

(***************************************************************************)
(* C23: an invalid construction argument fails at the constructor call,    *)
(* never later at a frequency evaluation: a negative value for resistor,   *)
(* capacitor and inductor, a ratio <= 0 for transformer, something that    *)
(* is no Load for series and parallel; nothing is made then.               *)
(***************************************************************************)
\* the argument of a constructor call is invalid
Invalid(constructor, argument) ==
    IF constructor \in {"resistor", "capacitor", "inductor"}
    THEN DLt(argument, DZero)
    ELSE IF constructor = "transformer" THEN ~DLt(DZero, argument)
    ELSE IF constructor \in {"series", "parallel"}
        THEN \E k \in 1 .. Len(argument) : argument[k] = NotALoad
    ELSE argument = NotALoad

C24_GeometricCooling ==
    pc \in {"loop", "done"}
        => /\ temperature * Pow(CoolDen, i) =
                  args.initialTemperature * Pow(CoolDen - args.coolingRate, i)
           /\ iter.ran => (temperature < iter.temperature /\ temperature > 0)

(***************************************************************************)
(* C25: one Filter.update() moves the value index of every component of    *)
(* every stage by exactly one step, and the directions are independent:    *)
(* for the components inside their tables every combination of +1 and -1   *)
(* is an outcome of one update().                                          *)
(***************************************************************************)
\* <<stage, component>> of every component of f
Positions(f) ==
    {p \in (1 .. Len(f.stages)) \X (1 .. 3) :
        p[2] <= Len(f.stages[p[1]].components)}

IndexAt(f, p) ==
    f.stages[p[1]].components[p[2]].valueIndex

\* the components of f that are at neither end of their table
Interior(f) ==
    {p \in Positions(f) :
        /\ IndexAt(f, p) > 0
        /\ IndexAt(f, p) < Len(f.stages[p[1]].components[p[2]].feasibleValues) - 1}

C25_UpdateMovesEveryComponent ==
    call.fn = "update"
        => LET f == call.args[1]
               g == call.result
           IN  /\ Positions(g) = Positions(f)
               /\ \A p \in Positions(f) :
                      IndexAt(g, p) - IndexAt(f, p) \in {-1, 1}
               /\ \A dirs \in [Interior(f) -> {-1, 1}] :
                      \E rns \in [1 .. NumComponents(f) -> Draws] :
                          \A p \in Interior(f) :
                              IndexAt(Filter_update(f, rns), p) =
                                  IndexAt(f, p) + dirs[p]

\* of three components inside their tables the first moved up, the second
\* down and the third up
C25_ThreeDirections ==
    /\ call.fn = "update"
    /\ Interior(call.args[1]) = {<<1, 1>>, <<1, 2>>, <<2, 1>>}
    /\ IndexAt(call.result, <<1, 1>>) = IndexAt(call.args[1], <<1, 1>>) + 1
    /\ IndexAt(call.result, <<1, 2>>) = IndexAt(call.args[1], <<1, 2>>) - 1
    /\ IndexAt(call.result, <<2, 1>>) = IndexAt(call.args[1], <<2, 1>>) + 1

(***************************************************************************)
(* C26: optimizeFilter never changes the filter it is given: its stage     *)
(* list, the value index of every component and its terminations are as    *)
(* before the call, whatever was accepted; every candidate and the         *)
(* returned filter have the inputLoad and outputLoad of the given one.     *)
(***************************************************************************)
C26_InitialFilterUntouched ==
    /\ filterHeap[0] = args.initialFilter
    /\ \A k \in DOMAIN filterHeap :
           /\ filterHeap[k].inputLoad = args.initialFilter.inputLoad
           /\ filterHeap[k].outputLoad = args.initialFilter.outputLoad

\* returned after three iterations with another filter than the given one,
\* the last candidate having been accepted
C26_ReturnedAnother ==
    /\ pc = "done"
    /\ i = 3
    /\ returned # 0
    /\ iter.accepted
    /\ filterHeap[returned] # args.initialFilter
    /\ filterHeap[0] = args.initialFilter

(***************************************************************************)
(* C27: at the start of every iteration and at return the stored cost      *)
(* objectiveValue is the objective function's value on the network of the  *)
(* current filter; filter and cost are replaced together, and a rejected   *)
(* candidate changes neither.                                              *)
(***************************************************************************)
C27_CostIsObjectiveOfCurrent ==
    pc \in {"loop", "done"}
        => LET net == Filter_network(filterHeap[filter])
           IN  /\ ~net.raised
               /\ net.network \in DOMAIN objective
               /\ objectiveValue = objective[net.network]
               /\ iter.ran
                      => IF iter.accepted
                         THEN /\ filter = iter.candidate
                              /\ objectiveValue = iter.candidateObjectiveValue
                         ELSE /\ filter # iter.candidate
                              /\ objectiveValue = iter.objectiveValue

\* a candidate was accepted and a later one of another cost rejected
C27_RejectedAfterAccepted ==
    /\ pc = "loop"
    /\ iter.ran
    /\ ~iter.accepted
    /\ filter # 0
    /\ iter.candidateObjectiveValue # objectiveValue
    /\ objectiveValue # objective[Filter_network(filterHeap[0]).network]

(***************************************************************************)
(* C28: in every filter reached from the initial one by update() calls,    *)
(* all tables having two elements or more, the difference of the value     *)
(* indices of any two components has the parity it has in the initial      *)
(* filter; no candidate of a filter of two or more components differs      *)
(* from it in one component only.                                          *)
(***************************************************************************)
\* every feasibleValues array of f has two elements or more
TwoOrMore(f) ==
    \A p \in Positions(f) :
        Len(f.stages[p[1]].components[p[2]].feasibleValues) >= 2

OneUpdateFrom(from, length) ==
    from \cup {_nextIndex(k, length, rn) : k \in from, rn \in Draws}

\* the indices that `steps` update() calls or fewer lead to
RECURSIVE UpdatesFrom(_, _, _)
UpdatesFrom(from, length, steps) ==
    IF steps = 0 THEN from
    ELSE UpdatesFrom(OneUpdateFrom(from, length), length, steps - 1)

C29_EveryIndexReachable ==
    \A v \in 1 .. Len(cvHeap) :
        LET n == Len(TableOf(v))
        IN  n >= 2
                => \A start \in 0 .. (n - 1) :
                       UpdatesFrom({start}, n, n) = 0 .. (n - 1)

\* two update() calls have led from index 0 to +Infinity at the last index
\* of a table of three elements or more
C29_ReachedInfinity ==
    /\ cvLast.op = "update"
    /\ Len(cvHeap) >= 3
    /\ cvHeap[1].valueIndex = 0
    /\ Len(TableOf(1)) >= 3
    /\ cvHeap[cvLast.result].feasibleValues = cvHeap[1].feasibleValues
    /\ cvHeap[cvLast.result].valueIndex = Len(TableOf(1)) - 1
    /\ value(TableOf(1), Len(TableOf(1)) - 1) = PInf

(***************************************************************************)
(* C30: the objective function returns +Infinity or a finite number,       *)
(* never NaN and never -Infinity, also for gains of 0 or +Infinity at      *)
(* some or all of the sampled frequencies and when no sample is taken.     *)
(***************************************************************************)
C30_NeverNaNNorMinusInfinity ==
    call.fn = "objective"
        => /\ call.result # NaN
           /\ call.result # NInf
           /\ call.result = PInf \/ call.result.cls \in {"fin", "log10", "scaled"}

====
